---- MODULE Spec2Model ----
(***************************************************************************)
(* Model of the vacancy ingestion pipeline: ChannelMonitor                 *)
(* (services/channel_monitor.py), VacancyParser (services/vacancy_parser.py)*)
(* and the parse-latest API route (api/routes.py), over a Telegram channel *)
(* source and a MongoDB store; with them the lifespan of the application   *)
(* (main.py), TelegramParser (services/telegram_parser.py) and             *)
(* TelegramMonitor (services/monitor.py), which use the same store.        *)
(*                                                                         *)
(* Every await of the code is one step of the model: the code between two  *)
(* awaits runs atomically on the asyncio event loop.                       *)
(***************************************************************************)
EXTENDS Integers, Sequences, FiniteSets, Bags, TLC

\* ------------------------------------------------------------------ bounds

\* Number of messages posted to the watched channels in one behaviour; the
\* ids of a channel grow from 1, so no message id exceeds it.
MaxPosts == 2

\* Largest id of a message that is in a channel when the monitor starts, in
\* the specification that starts with channels already filled.
MaxInitialId == 1

\* ------------------------------------------------------- program constants

\* @retry(stop=stop_after_attempt(3), ...) on process_message
MaxAttempts == 3
\* Mutant of DefaultLimit: a default page of two messages.
WiderLimit == 1 + 1
\* get_channel_messages(self, channel_id, limit: int = 1)
DefaultLimit == 1
\* parser.get_channel_messages(channel_id, limit=1) in the route
RouteLimit == 1

\* ---------------------------------------------------------------- strings
\* Channel references are Python strings; they are modelled as sequences of
\* one-character strings so that startswith/strip/int act as in the code.

DigitVal ==
    ("0" :> 0) @@ ("1" :> 1) @@ ("2" :> 2) @@ ("3" :> 3) @@ ("4" :> 4) @@
    ("5" :> 5) @@ ("6" :> 6) @@ ("7" :> 7) @@ ("8" :> 8) @@ ("9" :> 9)

IsDigits(s) == Len(s) > 0 /\ \A i \in 1..Len(s) : s[i] \in DOMAIN DigitVal

RECURSIVE ParseNat(_)
ParseNat(s) ==
    IF s = <<>> THEN 0
    ELSE 10 * ParseNat(SubSeq(s, 1, Len(s) - 1)) + DigitVal[s[Len(s)]]

\* Python int(str) on the strings the program sees (sign and decimal digits).
\* raised stands for the ValueError of a string that is no number.
PyInt(s) ==
    IF IsDigits(s) THEN [raised |-> FALSE, value |-> ParseNat(s)]
    ELSE IF Len(s) > 1 /\ s[1] = "-" /\ IsDigits(Tail(s))
    THEN [raised |-> FALSE, value |-> 0 - ParseNat(Tail(s))]
    ELSE [raised |-> TRUE, value |-> 0]

\* str.startswith
StartsWith(s, p) == Len(s) >= Len(p) /\ SubSeq(s, 1, Len(p)) = p

\* str.strip('-')
RECURSIVE LStripDash(_)
LStripDash(s) == IF s # <<>> /\ s[1] = "-" THEN LStripDash(Tail(s)) ELSE s

RECURSIVE RStripDash(_)
RStripDash(s) ==
    IF s # <<>> /\ s[Len(s)] = "-" THEN RStripDash(SubSeq(s, 1, Len(s) - 1)) ELSE s

StripDash(s) == RStripDash(LStripDash(s))

Prefix100 == <<"-", "1", "0", "0">>

\* Python str(int)
DigitChar == <<"0", "1", "2", "3", "4", "5", "6", "7", "8", "9">>

RECURSIVE NatStr(_)
NatStr(n) ==
    IF n < 10 THEN <<DigitChar[n + 1]>>
    ELSE NatStr(n \div 10) \o <<DigitChar[(n % 10) + 1]>>

PyStr(n) == IF n < 0 THEN <<"-">> \o NatStr(0 - n) ELSE NatStr(n)

\* ------------------------------------------------------------ the channels

\* Channel ids as main.validate_channels leaves them (digits only), and the
\* prefixed form a caller of the API route may use for the first of them.
RefA == <<"7">>
RefB == <<"8">>
RefAPrefixed == <<"-", "1", "0", "0", "7">>

\* A human-readable handle, "jobs", and the references a caller may give.
Handle == <<"j", "o", "b", "s">>
ChannelRefs == {RefA, RefAPrefixed, RefB, Handle}

\* The peers that exist at the channel source.
PeerA == 0 - 1007
PeerB == 0 - 1008
Peers == {PeerA, PeerB}

\* The channel lists start_monitoring is given: two channels, or one channel
\* configured twice (validate_channels does not remove duplicates).
ChannelLists == {<<RefA>>, <<RefA, RefB>>, <<RefA, RefA>>}

\* str.replace('-100', ''): every occurrence, from the left.
RECURSIVE Remove100(_)
Remove100(s) ==
    IF s = <<>> THEN <<>>
    ELSE IF StartsWith(s, Prefix100)
    THEN Remove100(SubSeq(s, Len(Prefix100) + 1, Len(s)))
    ELSE <<s[1]>> \o Remove100(Tail(s))

\* ''.join(filter(str.isdigit, clean_id))
IsDigit(c) == c \in DOMAIN DigitVal
OnlyDigits(s) == SelectSeq(s, IsDigit)

\* main.validate_channels on the entries of TELEGRAM_CHANNELS, split at the
\* commas: each entry is normalized, an entry without digits is dropped, and
\* equal results are all kept.
RECURSIVE ValidateChannels(_)
ValidateChannels(channels) ==
    IF channels = <<>> THEN <<>>
    ELSE LET clean_id == OnlyDigits(Remove100(Head(channels)))
         IN  (IF clean_id # <<>> THEN <<clean_id>> ELSE <<>>)
             \o ValidateChannels(Tail(channels))

\* A configuration that names one channel in both of its forms.
TwiceConfigured == <<RefA, RefAPrefixed>>

\* ------------------------------------------------------------ the messages

\* str.lower on the letters the sample texts use.
UpperCase ==
    ("A" :> "a") @@ ("B" :> "b") @@ ("C" :> "c") @@ ("J" :> "j") @@
    ("K" :> "k") @@ ("L" :> "l") @@ ("O" :> "o") @@ ("R" :> "r") @@
    ("S" :> "s") @@ ("T" :> "t") @@ ("Y" :> "y") @@ ("P" :> "p") @@
    ("U" :> "u") @@ ("V" :> "v") @@ ("Z" :> "z")

StrLower(s) ==
    [i \in 1..Len(s) |-> IF s[i] \in DOMAIN UpperCase THEN UpperCase[s[i]] ELSE s[i]]

\* keyword in text_lower
Contains(s, sub) ==
    \E i \in 1..(Len(s) - Len(sub) + 1) : SubSeq(s, i, i + Len(sub) - 1) = sub

\* is_valid_message: main_keywords and section_keywords.  The sample texts
\* are ASCII, so of the two lists only the English entries can occur in a
\* text; the Ukrainian and Russian entries are left out.
MainKeywords ==
    {<<"h", "i", "r", "i", "n", "g">>,
     <<"l", "o", "o", "k", "i", "n", "g", " ", "f", "o", "r">>,
     <<"j", "o", "b", " ", "o", "p", "e", "n", "i", "n", "g">>,
     <<"j", "o", "b", " ", "o", "p", "p", "o", "r", "t", "u", "n", "i", "t", "y">>,
     <<"p", "o", "s", "i", "t", "i", "o", "n">>,
     <<"v", "a", "c", "a", "n", "c", "y">>,
     <<"r", "e", "m", "o", "t", "e", " ", "j", "o", "b">>,
     <<"j", "o", "b">>,
     <<"w", "o", "r", "k">>}

SectionKeywords ==
    {<<"r", "e", "q", "u", "i", "r", "e", "m", "e", "n", "t", "s">>,
     <<"c", "o", "n", "d", "i", "t", "i", "o", "n", "s">>,
     <<"r", "e", "s", "p", "o", "n", "s", "i", "b", "i", "l", "i", "t", "i", "e", "s">>,
     <<"e", "x", "p", "e", "r", "i", "e", "n", "c", "e">>,
     <<"c", "o", "m", "p", "a", "n", "y">>,
     <<"s", "a", "l", "a", "r", "y">>,
     <<"p", "a", "y", "m", "e", "n", "t">>,
     <<"c", "o", "n", "t", "a", "c", "t", "s">>,
     <<"r", "e", "m", "o", "t", "e">>,
     <<"l", "o", "c", "a", "t", "i", "o", "n">>,
     <<"o", "f", "f", "e", "r", "i", "n", "g">>,
     <<"d", "e", "s", "c", "r", "i", "p", "t", "i", "o", "n">>,
     <<"p", "r", "o", "j", "e", "c", "t">>,
     <<"s", "c", "h", "e", "d", "u", "l", "e">>,
     <<"s", "k", "i", "l", "l", "s">>,
     <<"e", "d", "u", "c", "a", "t", "i", "o", "n">>,
     <<"b", "e", "n", "e", "f", "i", "t", "s">>,
     <<"q", "u", "a", "l", "i", "f", "i", "c", "a", "t", "i", "o", "n", "s">>,
     <<"s", "t", "a", "c", "k">>,
     <<"t", "e", "c", "h", "n", "o", "l", "o", "g", "i", "e", "s">>}

\* VacancyMessageParser._is_vacancy_message: vacancy_indicators, the
\* Ukrainian words in Latin letters (the sample texts are ASCII).
VacancyIndicators ==
    {<<"Z", "P", ":">>,
     <<"Z", "a", "r", "p", "l", "a", "t", "a", ":">>,
     <<"U", "m", "o", "v", "y", ":">>,
     <<"V", "y", "m", "o", "h", "y", ":">>,
     <<"K", "o", "m", "p", "a", "n", "i", "i", "a", ":">>,
     <<"O", "b", "o", "v", "i", "a", "z", "k", "y", ":">>,
     <<"K", "o", "n", "t", "a", "k", "t", "y", ":">>}
\* return matches >= 3
MinIndicators == 3

\* Mutant of MinTextLength: a text of 30 characters is still too short.
LongerMinTextLength == 30 + 1
\* if len(message.text) < 30
MinTextLength == 30
\* if len(found_section_keywords) < 2
MinSectionKeywords == 2

\* Python None, as a value comparable with the records the parser returns.
None == [none |-> TRUE]

RECURSIVE Dots(_)
Dots(n) == IF n = 0 THEN <<>> ELSE <<".">> \o Dots(n - 1)

\* "job salary stack": a main keyword and two section keywords, 16 characters.
Advert ==
    <<"j", "o", "b", " ", "s", "a", "l", "a", "r", "y", " ",
      "s", "t", "a", "c", "k">>

\* The texts of the messages, by name.  The monitor is run over the first
\* three; the validator is also applied to the others.
\*   "absent"      : message.text is None (a service message)
\*   "short"       : the keywords of a vacancy in 16 characters
\*   "vacancy"     : the same with filling, exactly 30 characters
\*   "empty"       : message.text is "" (a message with media only)
\*   "len29"       : the same keywords in 29 characters
\*   "no_main"     : two section keywords, no main keyword
\*   "one_section" : a main keyword and one section keyword, twice
\*   "upper"       : the text of "vacancy" in capital letters
\*   "overlap"     : "remote job experience": 'remote' is found inside the
\*                   main keyword 'remote job'
\*   "indicators"  : "ZP: Umovy: Vymohy:", three of the vacancy indicators of
\*                   VacancyMessageParser
\*   "two_indicators" : "ZP: Umovy:", two of them
\*   "both"        : "job salary stack ZP: Umovy: Vymohy:", the keywords of the
\*                   validator and three indicators
TextBody ==
    ("absent" :> None) @@
    ("short" :> [chars |-> Advert]) @@
    ("vacancy" :> [chars |-> Advert \o Dots(14)]) @@
    ("empty" :> [chars |-> <<>>]) @@
    ("len29" :> [chars |-> Advert \o Dots(13)]) @@
    ("no_main" :> [chars |-> <<"s", "a", "l", "a", "r", "y", " ",
                               "s", "t", "a", "c", "k">> \o Dots(20)]) @@
    ("one_section" :> [chars |-> <<"j", "o", "b", " ",
                                   "s", "a", "l", "a", "r", "y", " ",
                                   "s", "a", "l", "a", "r", "y">> \o Dots(20)]) @@
    ("upper" :> [chars |-> <<"J", "O", "B", " ", "S", "A", "L", "A", "R", "Y", " ",
                             "S", "T", "A", "C", "K">> \o Dots(14)]) @@
    ("overlap" :> [chars |-> <<"r", "e", "m", "o", "t", "e", " ", "j", "o", "b", " ",
                               "e", "x", "p", "e", "r", "i", "e", "n", "c", "e">>
                             \o Dots(12)]) @@
    ("indicators" :> [chars |-> <<"Z", "P", ":", " ", "U", "m", "o", "v", "y", ":", " ", "V", "y", "m", "o", "h", "y", ":">>]) @@
    ("two_indicators" :> [chars |-> <<"Z", "P", ":", " ", "U", "m", "o", "v", "y", ":">>]) @@
    ("both" :> [chars |-> Advert \o
                          <<" ", "Z", "P", ":", " ", "U", "m", "o", "v", "y", ":", " ", "V", "y", "m", "o", "h", "y", ":">>])

AllTexts == DOMAIN TextBody
Texts == {"absent", "short", "vacancy"}

Message(id, text) == [id |-> id, text |-> text]
NoMessage == Message(0, "absent")

\* ------------------------------------------ the extraction service answers
\* JSON values as json.loads returns them: None for null, and an int, a str
\* or a dict, each under its type.

Num(n) == [int |-> n]
Str(s) == [str |-> s]
Dict(f) == [dict |-> f]

IsNum(v) == DOMAIN v = {"int"}
IsStr(v) == DOMAIN v = {"str"}
IsDict(v) == DOMAIN v = {"dict"}

EmptyDict == Dict([k \in {} |-> None])

\* Python truth value: None, 0, "" and {} are false.
Truthy(v) ==
    IF v = None THEN FALSE
    ELSE IF IsNum(v) THEN v.int # 0
    ELSE IF IsStr(v) THEN v.str # ""
    ELSE DOMAIN v.dict # {}

\* Python: a or b
Or(a, b) == IF Truthy(a) THEN a ELSE b

\* dict.get(key, default) on a dict
Get(d, key, default) == IF key \in DOMAIN d.dict THEN d.dict[key] ELSE default

\* A dict without one key, and with one key set.
Without(d, key) == Dict([k \in DOMAIN d.dict \ {key} |-> d.dict[k]])
With(d, key, value) ==
    Dict([k \in DOMAIN d.dict \cup {key} |-> IF k = key THEN value ELSE d.dict[k]])

\* The work format of a remote vacancy and the text for a value that is not
\* given, 'Віддаленно' and 'Не указано' in the code.
Remote == Str("Viddalenno")
Unspecified == Str("Ne ukazano")

\* A complete answer for a remote vacancy, as the prompt asks for it, and the
\* same vacancy in an office.
RemoteVacancy ==
    Dict(("title" :> Str("Developer")) @@
         ("published_date" :> Str("2024-01-01")) @@
         ("company" :> Str("Acme")) @@
         ("work_format" :> Remote) @@
         ("salary" :> Dict(("amount" :> Str("1000-2000")) @@
                           ("currency" :> Str("USD")) @@
                           ("range" :> Dict(("min" :> Num(1000)) @@
                                            ("max" :> Num(2000)))))) @@
         ("location" :> Str("Kyiv")) @@
         ("description" :> Str("Builds things")) @@
         ("contacts" :> Dict(("type" :> Str("email")) @@
                             ("value" :> Str("hr@acme")))))

OfficeVacancy == With(RemoteVacancy, "work_format", Str("Ofis"))

\* One request to the extraction service: no response within the timeout, a
\* response with a status other than 200, a response whose text is not JSON,
\* or a response whose text is the JSON value.
Timeout == [status |-> "timeout", parses |-> FALSE, value |-> None]
HttpError == [status |-> "http_error", parses |-> FALSE, value |-> None]
BadJson == [status |-> "ok", parses |-> FALSE, value |-> None]
Answer(value) == [status |-> "ok", parses |-> TRUE, value |-> value]

\* The answers the monitor is run over.
Replies == {Timeout, HttpError, Answer(None), Answer(OfficeVacancy), Answer(RemoteVacancy)}

\* The values the service may give for an end of the salary range.
RangeEnds == {None, Num(0), Num(1000), Num(0 - 5), Str("1000")}

\* The range dicts: each of min and max absent or one of the values.
Ranges ==
    {Dict(f) : f \in UNION {[D -> RangeEnds] : D \in SUBSET {"min", "max"}}}

\* The salary values: null, a dict without range, with a null range, or with
\* one of the ranges.
Salaries ==
    {None, Dict("amount" :> Str("1000")),
     Dict(("amount" :> Str("1000")) @@ ("range" :> None))}
    \cup {Dict(("currency" :> Str("USD")) @@ ("range" :> r)) : r \in Ranges}

\* The answers the parser is applied to: those above, a text that is no
\* JSON, JSON values that are no vacancy dict, and the remote vacancy with
\* one field left out, null, empty or varied.
ParserReplies ==
    Replies
    \cup {BadJson, Answer(EmptyDict), Answer(Str("no vacancy")), Answer(Num(0))}
    \cup {Answer(Without(RemoteVacancy, k)) : k \in DOMAIN RemoteVacancy.dict}
    \cup {Answer(With(RemoteVacancy, k, None)) : k \in DOMAIN RemoteVacancy.dict}
    \cup {Answer(With(RemoteVacancy, "company", Str("")))}
    \cup {Answer(With(RemoteVacancy, "salary", sal)) : sal \in Salaries}

VARIABLES
    valid_channels,  \* start_monitoring: the validated channel list
    chanMsgs,        \* channel source: peer -> set of messages now in the channel
    lastPosted,      \* channel source: peer -> highest id handed out so far
    vacancies,       \* store: bag of [telegram_message_id, channel_id]
    states,          \* store: channel_states, channel_id -> last_message_id
    vacancyIndex,    \* store: state of the unique index _init_collections builds
    phase,           \* start_monitoring: "gather" or "sleep"
    pc,              \* monitor_channel task of each list entry: its await point
    messages,        \* monitor_channel: the fetched batch
    idx,             \* monitor_channel: position of the for loop in the batch
    attempt,         \* process_message: tenacity attempt number
    processed,       \* monitor_channel: processed
    skipped,         \* monitor_channel: skipped
    outcomes,        \* log: the outcome of each process_message call of the cycle
    error,           \* log: what the except branch of monitor_channel caught
    route,           \* parse_latest_vacancy: the request in flight
    call,            \* parser: the last call made to it on its own, and its result
    app,             \* lifespan: its stage and the connections it opened
    parsing,         \* TelegramParser: _processing, the client and the loop
    suspended,       \* TelegramParser: the loop of an earlier start_periodic_parsing
    telegramMonitor, \* TelegramMonitor: is_running, the client, the loop
    extractions      \* log: requests to the extraction service for the current message

vars == <<valid_channels, chanMsgs, lastPosted, vacancies, states, vacancyIndex,
          phase, pc, messages, idx, attempt, processed, skipped, outcomes,
          error, route, call, app, parsing, suspended, telegramMonitor,
          extractions>>

sourceVars == <<chanMsgs, lastPosted>>
workerVars == <<pc, messages, idx, attempt, processed, skipped, outcomes, error,
                extractions>>

Workers == DOMAIN valid_channels

\* TelegramParser.__init__: _processing = False, a client not yet started.
Constructed ==
    [processing |-> FALSE, connected |-> FALSE, pc |-> "idle", channel |-> 0,
     total_processed |-> 0, entity |-> 0, messages |-> <<>>, idx |-> 0]

\* The part of the state of the TelegramParser that belongs to one call of
\* start_periodic_parsing, when no such call is suspended.
NoLoop ==
    [pc |-> "idle", channel |-> 0, total_processed |-> 0, entity |-> 0,
     messages |-> <<>>, idx |-> 0]

\* TelegramMonitor.__init__: no client, is_running False, no cursor.
\* unprocessed is a log: the messages whose processing raised and that
\* have not been fetched again since, as pairs of channel id and message id.
MonitorConstructed ==
    [is_running |-> FALSE, client |-> "none", pc |-> "idle", channel |-> 0,
     messages |-> <<>>, idx |-> 0, last_message_ids |-> [c \in {} |-> 0],
     unprocessed |-> {}]

\* ---------------------------------------------------------- channel source

Min(a, b) == IF a < b THEN a ELSE b

RECURSIVE SumOver(_, _)
SumOver(f, S) ==
    IF S = {} THEN 0
    ELSE LET x == CHOOSE y \in S : TRUE IN f[x] + SumOver(f, S \ {x})

RECURSIVE NewestFirst(_)
NewestFirst(S) ==
    IF S = {} THEN <<>>
    ELSE LET m == CHOOSE x \in S : \A y \in S : y.id <= x.id
         IN  <<m>> \o NewestFirst(S \ {m})

\* The newest (largest) message id of a batch.
NewestId(batch) ==
    CHOOSE n \in {batch[i].id : i \in 1..Len(batch)} :
        \A i \in 1..Len(batch) : batch[i].id <= n

\* client.iter_messages(channel, limit=limit): newest first, at most limit.
IterMessages(peer, limit) ==
    LET all == NewestFirst(chanMsgs[peer])
    IN  SubSeq(all, 1, Min(limit, Len(all)))

\* The peer get_channel_messages asks the source for.
ChannelPeer(channel_id) ==
    IF StartsWith(channel_id, Prefix100) THEN PyInt(channel_id)
    ELSE PyInt(Prefix100 \o StripDash(channel_id))

\* VacancyParser.get_channel_messages; sourceUp is whether the channel source
\* answers this call.
GetChannelMessages(channel_id, limit, sourceUp) ==
    LET peer == ChannelPeer(channel_id)
    IN  IF peer.raised \/ peer.value \notin Peers \/ ~sourceUp
        THEN [raised |-> TRUE, messages |-> <<>>]
        ELSE [raised |-> FALSE, messages |-> IterMessages(peer.value, limit)]

\* ------------------------------------------------------------------ parser

\* VacancyParser.is_valid_message.  message.text[:200] is evaluated for the
\* debug log before the text is tested, so a text that is None raises
\* (TypeError); after that the tests are made in the order of the code.
IsValidMessage(message) ==
    LET text == TextBody[message.text]
        text_lower == StrLower(text.chars)
        found_main_keywords == {k \in MainKeywords : Contains(text_lower, k)}
        found_section_keywords == {k \in SectionKeywords : Contains(text_lower, k)}
    IN  IF text = None
        THEN [raised |-> TRUE, valid |-> FALSE, reason |-> "TypeError"]
        ELSE IF text.chars = <<>>
        THEN [raised |-> FALSE, valid |-> FALSE, reason |-> "Message contains no text"]
        ELSE IF Len(text.chars) < MinTextLength
        THEN [raised |-> FALSE, valid |-> FALSE, reason |-> "Message is too short"]
        ELSE IF found_main_keywords = {}
        THEN [raised |-> FALSE, valid |-> FALSE,
              reason |-> "No job-related main keywords found"]
        ELSE IF Cardinality(found_section_keywords) < MinSectionKeywords
        THEN [raised |-> FALSE, valid |-> FALSE,
              reason |-> "Not enough vacancy section keywords"]
        ELSE [raised |-> FALSE, valid |-> TRUE, reason |-> "Valid message"]

\* VacancyParser.parse_with_claude: the timeout, the status that is not 200
\* and the text that json.loads rejects all raise inside the try, and the
\* except returns None; otherwise the JSON value is returned, None for null.
ParseWithClaude(response) ==
    IF response.status # "ok" THEN None
    ELSE IF ~response.parses THEN None
    ELSE response.value

\* Mutant of ParseVacancy: every field is read with .get, so a missing key
\* gives None for the field and no KeyError.
ParseVacancyLenient(response) ==
    LET parsed == ParseWithClaude(response)
        salary == Get(parsed, "salary", EmptyDict)
        salary_range == Get(salary, "range", Dict(("min" :> Num(0)) @@ ("max" :> Num(0))))
        min_salary == Or(Get(salary_range, "min", Num(0)), Num(0))
        max_salary == Or(Get(salary_range, "max", Num(0)), Num(0))
        company == Or(Get(parsed, "company", None), Unspecified)
    IN  IF ~Truthy(parsed) THEN None
        ELSE IF ~IsDict(parsed) THEN None
        ELSE IF Get(parsed, "work_format", None) # Remote THEN None
        ELSE IF salary = None \/ ~IsDict(salary) THEN None
        ELSE IF salary_range = None \/ ~IsDict(salary_range) THEN None
        ELSE [title |-> Get(parsed, "title", None),
              work_format |-> Get(parsed, "work_format", None),
              salary |-> [amount |-> Get(salary, "amount", Unspecified),
                          currency |-> Get(salary, "currency", None),
                          range |-> [min |-> min_salary, max |-> max_salary]],
              location |-> Get(parsed, "location", None),
              company |-> company,
              description |-> Get(parsed, "description", None),
              contacts |-> Get(parsed, "contacts", None)]

\* VacancyParser.parse_vacancy after a successful validation: the try block.
\* A .get on a value that is no dict (AttributeError) and a missing key in
\* parsed[...] (KeyError) are caught by the except, which returns None.
ParseVacancy(response) ==
    LET parsed == ParseWithClaude(response)
        salary == Get(parsed, "salary", EmptyDict)
        salary_range == Get(salary, "range", Dict(("min" :> Num(0)) @@ ("max" :> Num(0))))
        min_salary == Or(Get(salary_range, "min", Num(0)), Num(0))
        max_salary == Or(Get(salary_range, "max", Num(0)), Num(0))
        company == Or(Get(parsed, "company", None), Unspecified)
    IN  IF ~Truthy(parsed) THEN None
        ELSE IF ~IsDict(parsed) THEN None
        ELSE IF Get(parsed, "work_format", None) # Remote THEN None
        ELSE IF salary = None \/ ~IsDict(salary) THEN None
        ELSE IF salary_range = None \/ ~IsDict(salary_range) THEN None
        ELSE IF ~({"title", "work_format", "location", "description", "contacts"}
                    \subseteq DOMAIN parsed.dict) THEN None
        ELSE [title |-> parsed.dict["title"],
              work_format |-> parsed.dict["work_format"],
              salary |-> [amount |-> Get(salary, "amount", Unspecified),
                          currency |-> Get(salary, "currency", None),
                          range |-> [min |-> min_salary, max |-> max_salary]],
              location |-> parsed.dict["location"],
              company |-> company,
              description |-> parsed.dict["description"],
              contacts |-> parsed.dict["contacts"]]

\* VacancyParser.parse_vacancy as a whole: is_valid_message is called
\* outside the try block, so what it raises leaves parse_vacancy.
ParseVacancyOfMessage(message, response) ==
    LET checked == IsValidMessage(message)
    IN  IF checked.raised THEN [raised |-> TRUE, result |-> None]
        ELSE IF ~checked.valid THEN [raised |-> FALSE, result |-> None]
        ELSE [raised |-> FALSE, result |-> ParseVacancy(response)]

\* process_message: vacancy_dict = to_dict(vacancy_data), updated with the
\* key of the message; this is the document handed to insert_one.
VacancyDict(vacancy_data, message_id, channel_id) ==
    [title |-> vacancy_data.title,
     work_format |-> vacancy_data.work_format,
     salary |-> vacancy_data.salary,
     location |-> vacancy_data.location,
     company |-> vacancy_data.company,
     description |-> vacancy_data.description,
     contacts |-> vacancy_data.contacts,
     telegram_message_id |-> message_id,
     channel_id |-> channel_id]

\* What the logs tell of a message that produced no candidate: "Claude API
\* error", "Claude returned null", "skipped: Not a remote vacancy", or "Error
\* parsing message".
NoCandidateOutcome(response) ==
    IF response.status # "ok" \/ ~response.parses THEN "extraction_error"
    ELSE IF ~Truthy(response.value) THEN "no_vacancy"
    ELSE IF IsDict(response.value) /\ Get(response.value, "work_format", None) # Remote
    THEN "not_remote"
    ELSE "parse_error"

\* ------------------------------------------------------------------- store

Key(message_id, channel_id) ==
    [telegram_message_id |-> message_id, channel_id |-> channel_id]

Count(rec) == CopiesIn(rec, vacancies)

\* Mutant of FindOne: the existence check never finds the record.
FindOneNothing(message_id, channel_id) == FALSE

\* vacancies.find_one({"telegram_message_id": ..., "channel_id": ...})
FindOne(message_id, channel_id) == Count(Key(message_id, channel_id)) > 0

\* insert_one is rejected when the unique index exists and the key is stored.
DuplicateKey(rec) == vacancyIndex = "built" /\ Count(rec) > 0

InsertOne(rec) == vacancies (+) SetToBag({rec})

\* ChannelMonitor.get_last_message_id
GetLastMessageId(channel_id) ==
    IF channel_id \in DOMAIN states THEN states[channel_id] ELSE 0

\* Mutant of UpdateLastMessageId: the write has no channel filter and sets
\* the cursor of every channel.
UpdateLastMessageIdUnfiltered(channel_id, message_id) ==
    [c \in DOMAIN states \cup {channel_id, RefA, RefB} |-> message_id]

\* ChannelMonitor.update_last_message_id: update_one(..., upsert=True)
UpdateLastMessageId(channel_id, message_id) ==
    [c \in DOMAIN states \cup {channel_id} |->
        IF c = channel_id THEN message_id ELSE states[c]]

\* ChannelMonitor._init_collections, started by __init__ with
\* asyncio.create_task and never awaited: it builds the unique index on
\* (telegram_message_id, channel_id); the build fails on stored duplicates.
InitCollections ==
    /\ vacancyIndex = "pending"
    /\ vacancyIndex' =
          IF \A rec \in BagToSet(vacancies) : Count(rec) <= 1
          THEN "built" ELSE "failed"
    /\ UNCHANGED <<call, app, parsing, suspended, telegramMonitor, valid_channels, sourceVars, vacancies, states, phase,
                   workerVars, route>>

\* ---------------------------------------------------------- the environment

\* A message is posted to a channel.
Post(peer, text) ==
    /\ SumOver(lastPosted, Peers) < MaxPosts
    /\ lastPosted' = [lastPosted EXCEPT ![peer] = @ + 1]
    /\ chanMsgs' = [chanMsgs EXCEPT ![peer] = @ \cup {Message(lastPosted[peer] + 1, text)}]
    /\ UNCHANGED <<call, app, parsing, suspended, telegramMonitor, valid_channels, vacancies, states, vacancyIndex, phase,
                   workerVars, route>>

\* A message is deleted from a channel.
Delete(peer, message) ==
    /\ message \in chanMsgs[peer]
    /\ chanMsgs' = [chanMsgs EXCEPT ![peer] = @ \ {message}]
    /\ UNCHANGED <<call, app, parsing, suspended, telegramMonitor, valid_channels, lastPosted, vacancies, states, vacancyIndex,
                   phase, workerVars, route>>

\* --------------------------------------------------------- ChannelMonitor

\* ChannelMonitor._validate_channel_id: a digits-only id is returned as it
\* is, a prefixed one loses its prefix, anything else is a ValueError.
ValidateChannelId(channel) ==
    IF IsDigits(channel) THEN [raised |-> FALSE, value |-> channel]
    ELSE IF StartsWith(channel, Prefix100)
            /\ IsDigits(SubSeq(channel, Len(Prefix100) + 1, Len(channel)))
         THEN [raised |-> FALSE,
               value |-> SubSeq(channel, Len(Prefix100) + 1, Len(channel))]
         ELSE [raised |-> TRUE, value |-> channel]

\* start_monitoring: valid_channels, the ids _validate_channel_id accepts,
\* in the order of the list and with repetitions.
RECURSIVE ValidChannels(_)
ValidChannels(channels) ==
    IF channels = <<>> THEN <<>>
    ELSE LET valid_channel == ValidateChannelId(Head(channels))
         IN  (IF valid_channel.raised THEN <<>> ELSE <<valid_channel.value>>)
             \o ValidChannels(Tail(channels))

\* The message process_message is working on.
Current(w) == messages[w][idx[w]]

\* Mutant of MonitorChannelExcept: the handler ends the cycle of every
\* channel that is still running.
MonitorChannelExceptStopsAll(w, cause) ==
    /\ pc' = [v \in DOMAIN pc |->
                IF v = w \/ pc[v] \in {"fetch", "find", "extract", "insert", "advance"}
                THEN "failed" ELSE pc[v]]
    /\ error' = [v \in DOMAIN pc |->
                IF v = w THEN cause
                ELSE IF pc[v] \in {"fetch", "find", "extract", "insert", "advance"}
                THEN "cancelled" ELSE error[v]]
    /\ UNCHANGED <<messages, idx, attempt, extractions, processed, skipped, outcomes>>

\* Mutant of MonitorChannelExcept: after a failed fetch the handler fetches
\* again in the same cycle.
MonitorChannelExceptRefetches(w, cause) ==
    /\ pc' = [pc EXCEPT ![w] = IF cause = "fetch" THEN "fetch" ELSE "failed"]
    /\ error' = [error EXCEPT ![w] = cause]
    /\ UNCHANGED <<messages, idx, attempt, extractions, processed, skipped, outcomes>>

\* Mutant of MonitorChannelExcept: the error is raised again and leaves
\* monitor_channel.
MonitorChannelExceptReraises(w, cause) ==
    /\ pc' = [pc EXCEPT ![w] = "raised"]
    /\ error' = [error EXCEPT ![w] = cause]
    /\ UNCHANGED <<messages, idx, attempt, extractions, processed, skipped, outcomes>>

\* monitor_channel, except Exception: the cycle of this channel ends here.
MonitorChannelExcept(w, cause) ==
    /\ pc' = [pc EXCEPT ![w] = "failed"]
    /\ error' = [error EXCEPT ![w] = cause]
    /\ UNCHANGED <<messages, idx, attempt, extractions, processed, skipped, outcomes>>

\* process_message returns (True when it saved a vacancy): the for loop of
\* monitor_channel counts it and goes on to the next message, or leaves the
\* loop and, if processed, awaits update_last_message_id.
ReturnFromProcessMessage(w, saved, outcome) ==
    /\ processed' = [processed EXCEPT ![w] = IF saved THEN @ + 1 ELSE @]
    /\ skipped' = [skipped EXCEPT ![w] = IF saved THEN @ ELSE @ + 1]
    /\ outcomes' = [outcomes EXCEPT ![w] = Append(@, outcome)]
    /\ attempt' = [attempt EXCEPT ![w] = 1]
    /\ extractions' = [extractions EXCEPT ![w] = 0]
    /\ IF idx[w] < Len(messages[w])
       THEN /\ idx' = [idx EXCEPT ![w] = @ + 1]
            /\ pc' = [pc EXCEPT ![w] = "find"]
       ELSE /\ idx' = idx
            /\ pc' = [pc EXCEPT ![w] = IF processed'[w] > 0 THEN "advance" ELSE "done"]
    /\ UNCHANGED <<messages, error>>

\* Mutant of RaiseInProcessMessage: the retry has no stop condition, the
\* call is made again after every error.
RaiseInProcessMessageForever(w) ==
    /\ attempt' = [attempt EXCEPT ![w] = IF @ < MaxAttempts THEN @ + 1 ELSE @]
    /\ pc' = [pc EXCEPT ![w] = "find"]
    /\ UNCHANGED <<messages, idx, processed, skipped, outcomes, error,
                   extractions>>

\* process_message, except Exception: ... raise, under the tenacity retry:
\* the call is made again until the third attempt has raised, and then the
\* error reaches monitor_channel.
RaiseInProcessMessage(w) ==
    IF attempt[w] < MaxAttempts
    THEN /\ attempt' = [attempt EXCEPT ![w] = @ + 1]
         /\ pc' = [pc EXCEPT ![w] = "find"]
         /\ UNCHANGED <<messages, idx, processed, skipped, outcomes, error,
                        extractions>>
    ELSE MonitorChannelExcept(w, "process")

\* start_monitoring: a new cycle creates one monitor_channel per list entry.
StartCycle ==
    /\ phase = "sleep"
    /\ phase' = "gather"
    /\ pc' = [w \in Workers |-> "fetch"]
    /\ UNCHANGED <<call, app, parsing, suspended, telegramMonitor, valid_channels, sourceVars, vacancies, states, vacancyIndex,
                   messages, idx, attempt, extractions, processed, skipped, outcomes, error,
                   route>>

\* monitor_channel up to the return of get_channel_messages.
MonitorChannelFetch(w, sourceUp) ==
    /\ pc[w] = "fetch"
    /\ LET channel_id == ValidateChannelId(valid_channels[w])
           got == GetChannelMessages(channel_id.value, DefaultLimit, sourceUp)
       IN  IF channel_id.raised \/ got.raised
           THEN MonitorChannelExcept(w, "fetch")
           ELSE IF got.messages = <<>>
           THEN /\ pc' = [pc EXCEPT ![w] = "done"]
                /\ UNCHANGED <<messages, idx, attempt, extractions, processed, skipped,
                               outcomes, error>>
           ELSE /\ messages' = [messages EXCEPT ![w] = got.messages]
                /\ idx' = [idx EXCEPT ![w] = 1]
                /\ pc' = [pc EXCEPT ![w] = "find"]
                /\ UNCHANGED <<attempt, extractions, processed, skipped, outcomes, error>>
    /\ UNCHANGED <<call, app, parsing, suspended, telegramMonitor, valid_channels, sourceVars, vacancies, states, vacancyIndex,
                   phase, route>>

\* process_message from its start to the return of vacancies.find_one, and on
\* through is_valid_message to the request to the extraction service.
ProcessMessageFind(w, storeUp) ==
    /\ pc[w] = "find"
    /\ LET valid == IsValidMessage(Current(w))
       IN  IF ~storeUp THEN RaiseInProcessMessage(w)
           ELSE IF FindOne(Current(w).id, valid_channels[w])
           THEN ReturnFromProcessMessage(w, FALSE, "exists")
           ELSE IF valid.raised THEN RaiseInProcessMessage(w)
           ELSE IF ~valid.valid THEN ReturnFromProcessMessage(w, FALSE, "rejected")
           ELSE /\ pc' = [pc EXCEPT ![w] = "extract"]
                /\ extractions' = [extractions EXCEPT ![w] = @ + 1]
                /\ UNCHANGED <<messages, idx, attempt, processed, skipped,
                               outcomes, error>>
    /\ UNCHANGED <<call, app, parsing, suspended, telegramMonitor, valid_channels, sourceVars, vacancies, states, vacancyIndex,
                   phase, route>>

\* Mutant of ProcessMessageExtract: a vacancy that is not remote is raised as
\* an error of process_message.
ProcessMessageExtractRaising(w, reply) ==
    /\ pc[w] = "extract"
    /\ IF ParseVacancy(reply) = None
       THEN IF NoCandidateOutcome(reply) = "not_remote"
            THEN RaiseInProcessMessage(w)
            ELSE ReturnFromProcessMessage(w, FALSE, NoCandidateOutcome(reply))
       ELSE /\ pc' = [pc EXCEPT ![w] = "insert"]
            /\ UNCHANGED <<messages, idx, attempt, extractions, processed, skipped,
                           outcomes, error>>
    /\ UNCHANGED <<call, app, parsing, suspended, telegramMonitor, valid_channels, sourceVars, vacancies, states, vacancyIndex,
                   phase, route>>

\* The extraction service answers: parse_vacancy returns.
ProcessMessageExtract(w, reply) ==
    /\ pc[w] = "extract"
    /\ IF ParseVacancy(reply) = None
       THEN ReturnFromProcessMessage(w, FALSE, NoCandidateOutcome(reply))
       ELSE /\ pc' = [pc EXCEPT ![w] = "insert"]
            /\ UNCHANGED <<messages, idx, attempt, extractions, processed, skipped,
                           outcomes, error>>
    /\ UNCHANGED <<call, app, parsing, suspended, telegramMonitor, valid_channels, sourceVars, vacancies, states, vacancyIndex,
                   phase, route>>

\* Mutant of ProcessMessageInsert: the cursor is written together with the
\* insert of a message, before the loop over the batch has ended.
ProcessMessageInsertAdvancing(w, storeUp) ==
    /\ pc[w] = "insert"
    /\ LET rec == Key(Current(w).id, valid_channels[w])
       IN  IF ~storeUp \/ DuplicateKey(rec)
           THEN /\ RaiseInProcessMessage(w)
                /\ UNCHANGED <<vacancies, states>>
           ELSE /\ vacancies' = InsertOne(rec)
                /\ states' = UpdateLastMessageId(valid_channels[w], Current(w).id)
                /\ ReturnFromProcessMessage(w, TRUE, "saved")
    /\ UNCHANGED <<call, app, parsing, suspended, telegramMonitor, valid_channels, sourceVars, vacancyIndex, phase, route>>

\* vacancies.insert_one returns or raises.
ProcessMessageInsert(w, storeUp) ==
    /\ pc[w] = "insert"
    /\ LET rec == Key(Current(w).id, valid_channels[w])
       IN  IF ~storeUp \/ DuplicateKey(rec)
           THEN /\ RaiseInProcessMessage(w)
                /\ UNCHANGED vacancies
           ELSE /\ vacancies' = InsertOne(rec)
                /\ ReturnFromProcessMessage(w, TRUE, "saved")
    /\ UNCHANGED <<call, app, parsing, suspended, telegramMonitor, valid_channels, sourceVars, states, vacancyIndex, phase, route>>

\* if processed: await self.update_last_message_id(channel_id, messages[-1].id)
MonitorChannelAdvance(w, storeUp) ==
    /\ pc[w] = "advance"
    /\ IF storeUp
       THEN /\ states' = UpdateLastMessageId(valid_channels[w],
                                             messages[w][Len(messages[w])].id)
            /\ pc' = [pc EXCEPT ![w] = "done"]
            /\ UNCHANGED <<messages, idx, attempt, extractions, processed, skipped,
                           outcomes, error>>
       ELSE /\ MonitorChannelExcept(w, "advance")
            /\ UNCHANGED states
    /\ UNCHANGED <<call, app, parsing, suspended, telegramMonitor, valid_channels, sourceVars, vacancies, vacancyIndex, phase, route>>

\* The local state of a monitor_channel that is not running.
IdleWorkers ==
    /\ pc' = [w \in Workers |-> "idle"]
    /\ messages' = [w \in Workers |-> <<>>]
    /\ idx' = [w \in Workers |-> 0]
    /\ attempt' = [w \in Workers |-> 1]
    /\ extractions' = [w \in Workers |-> 0]
    /\ processed' = [w \in Workers |-> 0]
    /\ skipped' = [w \in Workers |-> 0]
    /\ outcomes' = [w \in Workers |-> <<>>]
    /\ error' = [w \in Workers |-> "none"]

\* Mutant of EndCycle: gather returns as soon as one monitor_channel has.
EndCycleAfterFirst ==
    /\ phase = "gather"
    /\ \E w \in Workers : pc[w] \in {"done", "failed"}
    /\ phase' = "sleep"
    /\ IdleWorkers
    /\ UNCHANGED <<call, app, parsing, suspended, telegramMonitor, valid_channels, sourceVars, vacancies, states, vacancyIndex, route>>

\* await asyncio.gather(*tasks) returns once every monitor_channel has.
EndCycle ==
    /\ phase = "gather"
    /\ \A w \in Workers : pc[w] \in {"done", "failed"}
    /\ phase' = "sleep"
    /\ IdleWorkers
    /\ UNCHANGED <<call, app, parsing, suspended, telegramMonitor, valid_channels, sourceVars, vacancies, states, vacancyIndex, route>>

\* ---------------------------------------------------------------- lifespan

\* lifespan at the yield: connect_to_database and parser.init_telegram have
\* returned and the monitor task is created.
Started == [stage |-> "running", database |-> TRUE, telegram |-> TRUE]

\* Shutdown, first part: monitor_task.cancel() and await
\* monitor_task.  CancelledError is raised at the await start_monitoring is
\* suspended in; it is no Exception, so no except branch of the monitor and
\* no retry catches it, and gather cancels every monitor_channel.
LifespanCancel ==
    /\ app.stage = "running"
    /\ app' = [app EXCEPT !.stage = "cancelled"]
    /\ phase' = "cancelled"
    /\ pc' = [w \in Workers |-> "cancelled"]
    /\ UNCHANGED <<call, parsing, suspended, telegramMonitor, valid_channels, sourceVars, vacancies, states,
                   vacancyIndex, messages, idx, attempt, extractions, processed, skipped,
                   outcomes, error, route>>

\* Shutdown, second part: await db.close_database_connection(), after which
\* lifespan returns.  parser.close_telegram() is not called.
LifespanClose ==
    /\ app.stage = "cancelled"
    /\ app' = [app EXCEPT !.stage = "stopped", !.database = FALSE]
    /\ UNCHANGED <<call, parsing, suspended, telegramMonitor, valid_channels, sourceVars, vacancies, states,
                   vacancyIndex, phase, workerVars, route>>

\* ---------------------------------------------------- parse_latest_vacancy

RouteIdle == [pc |-> "idle", channel_id |-> RefA, message |-> NoMessage]

\* POST /parse-latest/{channel_id} up to the return of get_channel_messages;
\* no message or an error ends the request.
ParseLatestFetch(channel_id, sourceUp) ==
    /\ route.pc = "idle"
    /\ LET got == GetChannelMessages(channel_id, RouteLimit, sourceUp)
       IN  route' = IF got.raised \/ got.messages = <<>>
                    THEN RouteIdle
                    ELSE [pc |-> "find", channel_id |-> channel_id,
                          message |-> got.messages[1]]
    /\ UNCHANGED <<call, app, parsing, suspended, telegramMonitor, valid_channels, sourceVars, vacancies, states, vacancyIndex,
                   phase, workerVars>>

\* db.db.vacancies.find_one returns, then is_valid_message.
ParseLatestFind(storeUp) ==
    /\ route.pc = "find"
    /\ LET valid == IsValidMessage(route.message)
       IN  route' = IF \/ ~storeUp
                       \/ FindOne(route.message.id, route.channel_id)
                       \/ valid.raised
                       \/ ~valid.valid
                    THEN RouteIdle
                    ELSE [route EXCEPT !.pc = "extract"]
    /\ UNCHANGED <<call, app, parsing, suspended, telegramMonitor, valid_channels, sourceVars, vacancies, states, vacancyIndex,
                   phase, workerVars>>

\* parser.parse_vacancy returns.
ParseLatestExtract(reply) ==
    /\ route.pc = "extract"
    /\ route' = IF ParseVacancy(reply) = None THEN RouteIdle
                ELSE [route EXCEPT !.pc = "insert"]
    /\ UNCHANGED <<call, app, parsing, suspended, telegramMonitor, valid_channels, sourceVars, vacancies, states, vacancyIndex,
                   phase, workerVars>>

\* db.db.vacancies.insert_one returns or raises: the request ends.
ParseLatestInsert(storeUp) ==
    /\ route.pc = "insert"
    /\ LET rec == Key(route.message.id, route.channel_id)
       IN  vacancies' = IF ~storeUp \/ DuplicateKey(rec) THEN vacancies
                        ELSE InsertOne(rec)
    /\ route' = RouteIdle
    /\ UNCHANGED <<call, app, parsing, suspended, telegramMonitor, valid_channels, sourceVars, states, vacancyIndex, phase, workerVars>>

\* --------------------------------------------------------- TelegramParser

\* config.channels of the TelegramParser: a numeric id and a handle.
TPChannels == <<RefA, Handle>>

\* await self.fetch_and_save_messages(channel, limit=50)
FetchLimit == 50

\* fetch_and_save_messages: the peer of a channel id.  An id with the -100
\* prefix is converted as it is (a ValueError leaves the function through
\* its outer except); another id is converted, printed and prefixed, and if
\* either conversion raises ValueError the id is taken as a username.
TPPeer(channel_id) ==
    IF StartsWith(channel_id, Prefix100)
    THEN LET n == PyInt(channel_id)
         IN  [raised |-> n.raised, kind |-> "id", value |-> n.value, name |-> <<>>]
    ELSE LET n == PyInt(channel_id)
             m == PyInt(Prefix100 \o Remove100(PyStr(n.value)))
         IN  IF n.raised \/ m.raised
             THEN [raised |-> FALSE, kind |-> "username", value |-> 0,
                   name |-> channel_id]
             ELSE [raised |-> FALSE, kind |-> "id", value |-> m.value, name |-> <<>>]

\* client.get_entity(peer) at the channel source, which knows the handle
\* "jobs" as the name of the second channel: the set of the entity found.
GetEntity(peer) ==
    IF peer.kind = "id"
    THEN IF peer.value \in Peers THEN {peer.value} ELSE {}
    ELSE IF peer.name = Handle THEN {PeerB} ELSE {}

\* if message and message.text
HasText(message) ==
    TextBody[message.text] # None /\ TextBody[message.text].chars # <<>>

\* VacancyMessageParser._is_vacancy_message
IsVacancyMessage(text) ==
    Cardinality({i \in VacancyIndicators : Contains(text, i)}) >= MinIndicators

\* What AnthropicParser.parse_text returns: None (an error, or no JSON in
\* the answer), or the dict of the answer, with or without a title.
ParsedData == {None, EmptyDict, RemoteVacancy}

\* VacancyMessageParser.parse: the key of the Vacancy it returns, or None.
TPParse(message, channel_id, parsed_data) ==
    IF ~HasText(message) THEN None
    ELSE IF ~IsVacancyMessage(TextBody[message.text].chars) THEN None
    ELSE IF ~Truthy(parsed_data) \/ ~Truthy(Get(parsed_data, "title", None)) THEN None
    ELSE Key(message.id, channel_id)

\* Mutant of ForChannel: the for loop does not look at _processing.
ForChannelUnchecked(p, k) ==
    IF k > Len(TPChannels)
    THEN [p EXCEPT !.pc = "wait", !.channel = 0, !.entity = 0,
                   !.messages = <<>>, !.idx = 0]
    ELSE [p EXCEPT !.pc = IF p.connected THEN "entity" ELSE "connect",
                   !.channel = k, !.entity = 0, !.messages = <<>>, !.idx = 0]

\* start_periodic_parsing, for channel in self.channels: the loop is left
\* when the channels are exhausted or _processing is False (break), and
\* asyncio.sleep(300) is awaited; otherwise fetch_and_save_messages is called
\* and runs up to its first await, in start_client or, with a connected
\* client, in get_entity.
ForChannel(p, k) ==
    IF k > Len(TPChannels) \/ ~p.processing
    THEN [p EXCEPT !.pc = "wait", !.channel = 0, !.entity = 0,
                   !.messages = <<>>, !.idx = 0]
    ELSE [p EXCEPT !.pc = IF p.connected THEN "entity" ELSE "connect",
                   !.channel = k, !.entity = 0, !.messages = <<>>, !.idx = 0]

\* start_periodic_parsing, while self._processing: a new round, or the end of
\* the loop.
WhileProcessing(p) ==
    IF p.processing
    THEN ForChannel([p EXCEPT !.total_processed = 0], 1)
    ELSE [p EXCEPT !.pc = "ended", !.channel = 0, !.entity = 0,
                   !.messages = <<>>, !.idx = 0]

\* fetch_and_save_messages returns (returned) or raises: the exception is
\* printed by start_periodic_parsing, and asyncio.sleep(5) is awaited.
AfterFetch(p, returned) ==
    [p EXCEPT !.pc = "pause",
              !.total_processed = IF returned THEN @ + 1 ELSE @,
              !.entity = 0, !.messages = <<>>, !.idx = 0]

\* fetch_and_save_messages, for message in messages: the next message, or
\* the end of the function.
NextMessage(p) ==
    IF p.idx < Len(p.messages)
    THEN [p EXCEPT !.pc = "exists", !.idx = @ + 1]
    ELSE AfterFetch(p, TRUE)

TPUnchanged ==
    UNCHANGED <<call, app, suspended, telegramMonitor, valid_channels, sourceVars,
                states, vacancyIndex,
                phase, workerVars, route>>

\* start_periodic_parsing is called: _processing = True, and the loop runs up
\* to its first await.
StartPeriodicParsing ==
    /\ parsing.pc = "idle"
    /\ parsing' = WhileProcessing([parsing EXCEPT !.processing = TRUE])
    /\ UNCHANGED vacancies
    /\ TPUnchanged

\* stop_parsing: _processing = False and stop_client, which disconnects a
\* connected client.
StopParsing ==
    /\ parsing.processing \/ parsing.connected
    /\ parsing' = [parsing EXCEPT !.processing = FALSE, !.connected = FALSE]
    /\ UNCHANGED vacancies
    /\ TPUnchanged

\* start_client: client.start() returns or raises; start_client is called
\* before the try of fetch_and_save_messages, so its exception leaves the
\* function.
TPStartClient(up) ==
    /\ parsing.pc = "connect"
    /\ parsing' = IF up
                  THEN [parsing EXCEPT !.connected = TRUE, !.pc = "entity"]
                  ELSE AfterFetch(parsing, FALSE)
    /\ UNCHANGED vacancies
    /\ TPUnchanged

\* fetch_and_save_messages up to the return of client.get_entity(peer): an
\* error in the conversion of the id or in get_entity is printed and the
\* function returns.
TPGetEntity(up) ==
    /\ parsing.pc = "entity"
    /\ LET peer == TPPeer(TPChannels[parsing.channel])
           found == IF peer.raised \/ ~up \/ ~parsing.connected
                    THEN {} ELSE GetEntity(peer)
       IN  parsing' = IF found = {}
                      THEN AfterFetch(parsing, TRUE)
                      ELSE [parsing EXCEPT !.pc = "iter",
                                           !.entity = CHOOSE x \in found : TRUE]
    /\ UNCHANGED vacancies
    /\ TPUnchanged

\* async for message in client.iter_messages(channel_entity, limit=limit):
\* the messages with a text are collected, newest first; an error is caught
\* by the outer except and the function returns.
TPIterMessages(up) ==
    /\ parsing.pc = "iter"
    /\ LET got == SelectSeq(IterMessages(parsing.entity, FetchLimit), HasText)
       IN  parsing' = IF ~up \/ ~parsing.connected \/ got = <<>>
                      THEN AfterFetch(parsing, TRUE)
                      ELSE [parsing EXCEPT !.pc = "exists", !.messages = got,
                                           !.idx = 1]
    /\ UNCHANGED vacancies
    /\ TPUnchanged

\* db_service.vacancy_exists(message.id, channel_id) returns or raises (the
\* outer except ends the function).  A stored message is skipped; for
\* another one message_parser.parse runs, without an await of its own (the
\* Anthropic client is the synchronous one), and with a vacancy
\* db_service.save_vacancy is awaited.
TPVacancyExists(up, parsed_data) ==
    /\ parsing.pc = "exists"
    /\ LET channel_id == TPChannels[parsing.channel]
           message == parsing.messages[parsing.idx]
           vacancy == TPParse(message, channel_id, parsed_data)
       IN  parsing' =
              IF ~up THEN AfterFetch(parsing, TRUE)
              ELSE IF FindOne(message.id, channel_id) THEN NextMessage(parsing)
              ELSE IF vacancy = None THEN NextMessage(parsing)
              ELSE [parsing EXCEPT !.pc = "save"]
    /\ UNCHANGED vacancies
    /\ TPUnchanged

\* MongoDBService.save_vacancy: insert_one; an exception is printed and
\* False returned.
TPSaveVacancy(up) ==
    /\ parsing.pc = "save"
    /\ LET rec == Key(parsing.messages[parsing.idx].id, TPChannels[parsing.channel])
       IN  vacancies' = IF up /\ ~DuplicateKey(rec) THEN InsertOne(rec) ELSE vacancies
    /\ parsing' = NextMessage(parsing)
    /\ TPUnchanged

\* asyncio.sleep(5) is over: the for loop goes to the next channel.
TPPause ==
    /\ parsing.pc = "pause"
    /\ parsing' = ForChannel(parsing, parsing.channel + 1)
    /\ UNCHANGED vacancies
    /\ TPUnchanged

\* asyncio.sleep(300) is over: the while loop tests _processing.
TPWait ==
    /\ parsing.pc = "wait"
    /\ parsing' = WhileProcessing(parsing)
    /\ UNCHANGED vacancies
    /\ TPUnchanged

\* The part of the TelegramParser state that is local to one call of
\* start_periodic_parsing, and the state with another call's part in it;
\* _processing and the client belong to the object and are shared.
LoopOf(p) ==
    [pc |-> p.pc, channel |-> p.channel, total_processed |-> p.total_processed,
     entity |-> p.entity, messages |-> p.messages, idx |-> p.idx]

WithLoop(p, l) ==
    [p EXCEPT !.pc = l.pc, !.channel = l.channel,
              !.total_processed = l.total_processed, !.entity = l.entity,
              !.messages = l.messages, !.idx = l.idx]

\* start_periodic_parsing is called again after stop_parsing, while the loop
\* of the earlier call is suspended in asyncio.sleep(5) or asyncio.sleep(300):
\* the new call sets _processing = True and runs up to its first await; the
\* earlier loop stays suspended.
RestartPeriodicParsing ==
    /\ suspended.pc = "idle"
    /\ parsing.pc \in {"pause", "wait"}
    /\ ~parsing.processing
    /\ suspended' = LoopOf(parsing)
    /\ parsing' = WhileProcessing([WithLoop(parsing, NoLoop) EXCEPT !.processing = TRUE])
    /\ UNCHANGED <<call, app, telegramMonitor, valid_channels, sourceVars, vacancies,
                   states, vacancyIndex, phase, workerVars, route>>

\* The event loop runs the other of the two loops next: the steps of the
\* TelegramParser are those of the loop held in parsing.
TPSwitch ==
    /\ suspended.pc # "idle"
    /\ suspended' = LoopOf(parsing)
    /\ parsing' = WithLoop(parsing, suspended)
    /\ UNCHANGED <<call, app, telegramMonitor, valid_channels, sourceVars, vacancies,
                   states, vacancyIndex, phase, workerVars, route>>

\* A step of the task that runs start_periodic_parsing.
TPLoopStep ==
    \/ \E up \in BOOLEAN : TPStartClient(up)
    \/ \E up \in BOOLEAN : TPGetEntity(up)
    \/ \E up \in BOOLEAN : TPIterMessages(up)
    \/ \E up \in BOOLEAN, d \in ParsedData : TPVacancyExists(up, d)
    \/ \E up \in BOOLEAN : TPSaveVacancy(up)
    \/ TPPause
    \/ TPWait

\* -------------------------------------------------------- TelegramMonitor

\* self.channels = settings.telegram_channels.split(',')
TMChannels == <<RefA, RefB>>

\* messages[::-1]
RECURSIVE Reverse(_)
Reverse(q) == IF q = <<>> THEN <<>> ELSE Reverse(Tail(q)) \o <<Head(q)>>

\* get_new_messages: the messages of iter_messages(channel, min_id=last_id)
\* that have a text, newest first.
NewMessages(peer, last_id) ==
    SelectSeq(NewestFirst(chanMsgs[peer]), LAMBDA x : x.id > last_id /\ HasText(x))

\* monitor_channels, for channel_id in self.channels, from channel k on:
\* get_new_messages runs up to its await of client.get_entity; an id that
\* cannot be converted raises inside get_new_messages, which returns [], and
\* the loop goes to the next channel.  After the last channel
\* asyncio.sleep(60) is awaited.  is_running is not read here.
RECURSIVE TMForChannel(_, _)
TMForChannel(m, k) ==
    IF k > Len(TMChannels)
    THEN [m EXCEPT !.pc = "sleep", !.channel = 0, !.messages = <<>>, !.idx = 0]
    ELSE IF ChannelPeer(TMChannels[k]).raised \/ m.client = "none"
    THEN TMForChannel(m, k + 1)
    ELSE [m EXCEPT !.pc = "entity", !.channel = k, !.messages = <<>>, !.idx = 0]

\* monitor_channels, finally: close_client, which disconnects a client that
\* exists.
TMFinally(m) ==
    [m EXCEPT !.pc = IF m.client = "none" THEN "ended" ELSE "close",
              !.channel = 0, !.messages = <<>>, !.idx = 0]

\* monitor_channels, while self.is_running
TMWhile(m) == IF m.is_running THEN TMForChannel(m, 1) ELSE TMFinally(m)

\* process_messages, for message in messages: the next message, or the
\* return to the loop over the channels.
TMNextMessage(m) ==
    IF m.idx < Len(m.messages)
    THEN [m EXCEPT !.pc = "find", !.idx = @ + 1]
    ELSE TMForChannel(m, m.channel + 1)

\* process_messages, except Exception: the error of this message is logged
\* and the loop goes on.
TMMessageFailed(m) ==
    TMNextMessage([m EXCEPT !.unprocessed =
                       @ \cup {<<TMChannels[m.channel], m.messages[m.idx].id>>}])

TMUnchanged ==
    UNCHANGED <<call, app, parsing, suspended, valid_channels, sourceVars, states,
                vacancyIndex, phase, workerVars, route>>

\* start(): is_running = True and monitor_channels up to its first await:
\* init_client creates and starts a client only when there is none.
TMStart ==
    /\ telegramMonitor.pc \in {"idle", "ended"}
    /\ LET m == [telegramMonitor EXCEPT !.is_running = TRUE]
       IN  telegramMonitor' =
              IF m.client = "none"
              THEN [m EXCEPT !.client = "disconnected", !.pc = "init"]
              ELSE TMWhile(m)
    /\ UNCHANGED vacancies
    /\ TMUnchanged

\* stop(): is_running = False and close_client.
TMStop ==
    /\ telegramMonitor.is_running \/ telegramMonitor.client = "connected"
    /\ telegramMonitor' =
          [telegramMonitor EXCEPT
              !.is_running = FALSE,
              !.client = IF @ = "none" THEN "none" ELSE "disconnected"]
    /\ UNCHANGED vacancies
    /\ TMUnchanged

\* init_client: client.start() returns, or raises into the except of
\* monitor_channels.
TMInitClient(up) ==
    /\ telegramMonitor.pc = "init"
    /\ telegramMonitor' =
          IF up THEN TMWhile([telegramMonitor EXCEPT !.client = "connected"])
          ELSE TMFinally(telegramMonitor)
    /\ UNCHANGED vacancies
    /\ TMUnchanged

\* get_new_messages: client.get_entity(peer) returns, or raises and
\* get_new_messages returns [].
TMGetEntity(up) ==
    /\ telegramMonitor.pc = "entity"
    /\ LET m == telegramMonitor
           peer == ChannelPeer(TMChannels[m.channel])
       IN  telegramMonitor' =
              IF up /\ m.client = "connected" /\ peer.value \in Peers
              THEN [m EXCEPT !.pc = "iter"]
              ELSE TMForChannel(m, m.channel + 1)
    /\ UNCHANGED vacancies
    /\ TMUnchanged

\* get_new_messages: iter_messages is read; with messages the cursor of the
\* channel is set to the newest of them and they are returned oldest first
\* to monitor_channels, which calls process_messages.
TMIterMessages(up) ==
    /\ telegramMonitor.pc = "iter"
    /\ LET m == telegramMonitor
           channel_id == TMChannels[m.channel]
           last_id == IF channel_id \in DOMAIN m.last_message_ids
                      THEN m.last_message_ids[channel_id] ELSE 0
           got == NewMessages(ChannelPeer(channel_id).value, last_id)
       IN  telegramMonitor' =
              IF ~up \/ m.client # "connected" \/ got = <<>>
              THEN TMForChannel(m, m.channel + 1)
              ELSE [m EXCEPT
                      !.pc = "find", !.messages = Reverse(got), !.idx = 1,
                      !.last_message_ids =
                          [c \in DOMAIN @ \cup {channel_id} |->
                              IF c = channel_id THEN got[1].id ELSE @[c]],
                      !.unprocessed =
                          @ \ {<<channel_id, got[i].id>> : i \in 1..Len(got)}]
    /\ UNCHANGED vacancies
    /\ TMUnchanged

\* process_messages: find_one returns or raises; a stored message is
\* skipped; otherwise parse_vacancy runs is_valid_message and, for a valid
\* message, awaits the extraction service.
TMFind(up) ==
    /\ telegramMonitor.pc = "find"
    /\ LET m == telegramMonitor
           message == m.messages[m.idx]
           valid == IsValidMessage(message)
       IN  telegramMonitor' =
              IF ~up THEN TMMessageFailed(m)
              ELSE IF FindOne(message.id, TMChannels[m.channel]) THEN TMNextMessage(m)
              ELSE IF valid.raised THEN TMMessageFailed(m)
              ELSE IF ~valid.valid THEN TMNextMessage(m)
              ELSE [m EXCEPT !.pc = "extract"]
    /\ UNCHANGED vacancies
    /\ TMUnchanged

\* process_messages: parse_vacancy returns.
TMExtract(reply) ==
    /\ telegramMonitor.pc = "extract"
    /\ telegramMonitor' =
          IF ParseVacancy(reply) = None THEN TMNextMessage(telegramMonitor)
          ELSE [telegramMonitor EXCEPT !.pc = "insert"]
    /\ UNCHANGED vacancies
    /\ TMUnchanged

\* process_messages: insert_one returns or raises.
TMInsert(up) ==
    /\ telegramMonitor.pc = "insert"
    /\ LET m == telegramMonitor
           rec == Key(m.messages[m.idx].id, TMChannels[m.channel])
       IN  IF ~up \/ DuplicateKey(rec)
           THEN /\ telegramMonitor' = TMMessageFailed(m)
                /\ UNCHANGED vacancies
           ELSE /\ telegramMonitor' = TMNextMessage(m)
                /\ vacancies' = InsertOne(rec)
    /\ TMUnchanged

\* asyncio.sleep(60) is over.
TMSleep ==
    /\ telegramMonitor.pc = "sleep"
    /\ telegramMonitor' = TMWhile(telegramMonitor)
    /\ UNCHANGED vacancies
    /\ TMUnchanged

\* close_client in the finally of monitor_channels: the client is
\* disconnected and start() returns.
TMClose ==
    /\ telegramMonitor.pc = "close"
    /\ telegramMonitor' = [telegramMonitor EXCEPT !.client = "disconnected",
                                                  !.pc = "ended"]
    /\ UNCHANGED vacancies
    /\ TMUnchanged

\* A step of the task that runs monitor_channels.
TMLoopStep ==
    \/ \E up \in BOOLEAN : TMInitClient(up)
    \/ \E up \in BOOLEAN : TMGetEntity(up)
    \/ \E up \in BOOLEAN : TMIterMessages(up)
    \/ \E up \in BOOLEAN : TMFind(up)
    \/ \E reply \in Replies : TMExtract(reply)
    \/ \E up \in BOOLEAN : TMInsert(up)
    \/ TMSleep
    \/ TMClose

\* ------------------------------------------------- the parser on its own

NoCall ==
    [op |-> "none", channel_id |-> RefA, message |-> NoMessage,
     response |-> Timeout, raised |-> FALSE, result |-> None]

\* is_valid_message(message) returns (is_valid, reason), or raises.
CallIsValidMessage(message) ==
    /\ call.op = "none"
    /\ LET checked == IsValidMessage(message)
       IN  call' = [op |-> "is_valid_message", channel_id |-> RefA,
                    message |-> message,
                    response |-> Timeout, raised |-> checked.raised,
                    result |-> [valid |-> checked.valid, reason |-> checked.reason]]
    /\ UNCHANGED <<app, parsing, suspended, telegramMonitor, valid_channels, sourceVars, vacancies, states, vacancyIndex,
                   phase, workerVars, route>>

\* parse_with_claude(text, date) returns, the service having answered.
CallParseWithClaude(response) ==
    /\ call.op = "none"
    /\ call' = [op |-> "parse_with_claude", channel_id |-> RefA,
                message |-> NoMessage,
                response |-> response, raised |-> FALSE,
                result |-> ParseWithClaude(response)]
    /\ UNCHANGED <<app, parsing, suspended, telegramMonitor, valid_channels, sourceVars, vacancies, states, vacancyIndex,
                   phase, workerVars, route>>

\* parse_vacancy(message) returns or raises.
CallParseVacancy(message, response) ==
    /\ call.op = "none"
    /\ LET parsed == ParseVacancyOfMessage(message, response)
       IN  call' = [op |-> "parse_vacancy", channel_id |-> RefA,
                    message |-> message,
                    response |-> response, raised |-> parsed.raised,
                    result |-> parsed.result]
    /\ UNCHANGED <<app, parsing, suspended, telegramMonitor, valid_channels, sourceVars, vacancies, states, vacancyIndex,
                   phase, workerVars, route>>

\* process_message for a message that is not stored yet, up to the call of
\* insert_one: the result is the document handed to insert_one, None when
\* process_message returns False before it.
CallProcessMessage(message, response, channel_id) ==
    /\ call.op = "none"
    /\ LET parsed == ParseVacancyOfMessage(message, response)
       IN  call' = [op |-> "process_message", channel_id |-> channel_id,
                    message |-> message,
                    response |-> response, raised |-> parsed.raised,
                    result |-> IF parsed.result = None THEN None
                               ELSE VacancyDict(parsed.result, message.id, channel_id)]
    /\ UNCHANGED <<app, parsing, suspended, telegramMonitor, valid_channels, sourceVars, vacancies, states, vacancyIndex,
                   phase, workerVars, route>>

\* get_channel_messages(channel_id) returns or raises; the result is the
\* peer it asked the channel source for, None when the conversion of the
\* reference raised before.
CallGetChannelMessages(channel_id, sourceUp) ==
    /\ call.op = "none"
    /\ LET peer == ChannelPeer(channel_id)
       IN  call' = [op |-> "get_channel_messages", channel_id |-> channel_id,
                    message |-> NoMessage, response |-> Timeout,
                    raised |-> GetChannelMessages(channel_id, DefaultLimit, sourceUp).raised,
                    result |-> IF peer.raised THEN None ELSE Num(peer.value)]
    /\ UNCHANGED <<app, parsing, suspended, telegramMonitor, valid_channels, sourceVars, vacancies, states, vacancyIndex,
                   phase, workerVars, route>>

\* The caller has taken the result: the next call can be made.
TakeResult ==
    /\ call.op # "none"
    /\ call' = NoCall
    /\ UNCHANGED <<app, parsing, suspended, telegramMonitor, valid_channels, sourceVars, vacancies, states, vacancyIndex,
                   phase, workerVars, route>>

\* ------------------------------------------------------ the specifications

\* The state after ChannelMonitor(db.db, parser) and
\* asyncio.create_task(monitor.start_monitoring(channels)) in lifespan.
InitWith(lists, contents) ==
    /\ valid_channels \in lists
    /\ chanMsgs \in [Peers -> contents]
    /\ lastPosted = [p \in Peers |->
                        IF chanMsgs[p] = {} THEN 0
                        ELSE NewestId(NewestFirst(chanMsgs[p]))]
    /\ vacancies = EmptyBag
    /\ states = [c \in {} |-> 0]
    /\ vacancyIndex = "pending"
    /\ phase = "sleep"
    /\ pc = [w \in DOMAIN valid_channels |-> "idle"]
    /\ messages = [w \in DOMAIN valid_channels |-> <<>>]
    /\ idx = [w \in DOMAIN valid_channels |-> 0]
    /\ attempt = [w \in DOMAIN valid_channels |-> 1]
    /\ processed = [w \in DOMAIN valid_channels |-> 0]
    /\ skipped = [w \in DOMAIN valid_channels |-> 0]
    /\ outcomes = [w \in DOMAIN valid_channels |-> <<>>]
    /\ error = [w \in DOMAIN valid_channels |-> "none"]
    /\ route = RouteIdle
    /\ call = NoCall
    /\ app = Started
    /\ parsing = Constructed
    /\ suspended = NoLoop
    /\ telegramMonitor = MonitorConstructed
    /\ extractions = [w \in DOMAIN valid_channels |-> 0]

\* The peers of the monitored channels: only their content is ever read.
Watched == {ChannelPeer(valid_channels[w]).value : w \in Workers}

Environment ==
    \/ \E p \in Watched, t \in Texts : Post(p, t)
    \/ \E p \in Watched : \E m \in chanMsgs[p] : Delete(p, m)

WorkerStep(w) ==
    \/ \E up \in BOOLEAN : MonitorChannelFetch(w, up)
    \/ \E up \in BOOLEAN : ProcessMessageFind(w, up)
    \/ \E reply \in Replies : ProcessMessageExtract(w, reply)
    \/ \E up \in BOOLEAN : ProcessMessageInsert(w, up)
    \/ \E up \in BOOLEAN : MonitorChannelAdvance(w, up)

Monitor ==
    \/ StartCycle
    \/ \E w \in Workers : WorkerStep(w)
    \/ EndCycle

Route ==
    \/ \E up \in BOOLEAN : ParseLatestFetch(RefA, up)
    \/ \E up \in BOOLEAN : ParseLatestFind(up)
    \/ \E reply \in Replies : ParseLatestExtract(reply)
    \/ \E up \in BOOLEAN : ParseLatestInsert(up)

\* One monitored channel, and the API route called for it.
Init == InitWith({<<RefA>>}, {{}})
Next == Environment \/ InitCollections \/ Monitor \/ Route
Spec == Init /\ [][Next]_vars

\* One monitored channel, and the API route called with either form of its
\* reference.
RouteAnyForm ==
    \/ \E c \in {RefA, RefAPrefixed}, up \in BOOLEAN : ParseLatestFetch(c, up)
    \/ \E up \in BOOLEAN : ParseLatestFind(up)
    \/ \E reply \in Replies : ParseLatestExtract(reply)
    \/ \E up \in BOOLEAN : ParseLatestInsert(up)
NextForms == Environment \/ InitCollections \/ Monitor \/ RouteAnyForm
SpecForms == Init /\ [][NextForms]_vars

\* One monitored channel and no API call.
NextMonitor == Environment \/ InitCollections \/ Monitor
SpecMonitor == Init /\ [][NextMonitor]_vars

\* Two monitored channels.
InitPair == InitWith({<<RefA, RefB>>}, {{}})
SpecPair == InitPair /\ [][NextMonitor]_vars

\* One channel configured twice: lifespan hands validate_channels(...) to
\* start_monitoring.
InitTwin == InitWith({ValidChannels(ValidateChannels(TwiceConfigured))}, {{}})
SpecTwin == InitTwin /\ [][NextMonitor]_vars

\* The event loop runs every task that can run, and every call to the channel
\* source, the store and the extraction service returns or raises (each has a
\* timeout), so a monitor_channel that can take a step takes one.
\*
\* Two monitored channels over channels whose newest message is already
\* posted: monitor_channel reads only the newest message of a channel.
NewestAtStart == {{}} \cup {{Message(i, t)} : i \in 1..MaxInitialId, t \in Texts}
InitPosted == InitWith({<<RefA, RefB>>}, NewestAtStart)
NextCycles == InitCollections \/ Monitor
FairCycles ==
    InitPosted /\ [][NextCycles]_vars /\ WF_vars(WorkerStep(1)) /\ WF_vars(WorkerStep(2))

\* Two monitored channels whose newest message is already posted, with the
\* scheduler: when every monitor_channel has returned gather returns, and
\* when the sleep is over the next cycle starts.
FairScheduler ==
    /\ InitPosted /\ [][NextCycles]_vars
    /\ WF_vars(WorkerStep(1)) /\ WF_vars(WorkerStep(2))
    /\ WF_vars(EndCycle) /\ WF_vars(StartCycle)

\* The end-to-end scenario: two monitored channels that each hold a remote
\* vacancy, a message that is too short and, as the newest message, a vacancy
\* that the extraction service may find to be an office one.
ScenarioBatch == {Message(1, "vacancy"), Message(2, "short"), Message(3, "vacancy")}
InitScenario == InitWith({<<RefA, RefB>>}, {ScenarioBatch})
SpecScenario == InitScenario /\ [][NextCycles]_vars

\* One monitored channel and the shutdown of the application.
NextLifespan == NextMonitor \/ LifespanCancel \/ LifespanClose
SpecLifespan == Init /\ [][NextLifespan]_vars

\* The TelegramParser alone, over channels that hold a vacancy with the
\* indicators, a text without them and a message without text.  The task of
\* start_periodic_parsing is run by the event loop whenever it can run: its
\* sleeps end and its calls return or raise.
TPBatch == {Message(1, "indicators"), Message(2, "two_indicators"), Message(3, "absent")}
InitTelegramParser == InitWith({<<RefA>>}, {{}, TPBatch})
NextTelegramParser == StartPeriodicParsing \/ StopParsing \/ TPLoopStep
SpecTelegramParser ==
    InitTelegramParser /\ [][NextTelegramParser]_vars /\ WF_vars(TPLoopStep)

\* The TelegramParser with a second call of start_periodic_parsing.
NextRestart == NextTelegramParser \/ RestartPeriodicParsing \/ TPSwitch
SpecRestart == InitTelegramParser /\ [][NextRestart]_vars

\* The TelegramMonitor alone, over channels that are empty or hold a vacancy
\* and a message without text.  The task of monitor_channels is run by the
\* event loop whenever it can run.
TMBatch == {Message(1, "vacancy"), Message(2, "absent")}
InitTelegramMonitor == InitWith({<<RefA>>}, {{}, TMBatch})
NextTelegramMonitor == TMStart \/ TMStop \/ TMLoopStep
SpecTelegramMonitor ==
    InitTelegramMonitor /\ [][NextTelegramMonitor]_vars /\ WF_vars(TMLoopStep)

\* The same where the channel source is not down for ever: a get_entity and
\* an iter_messages that are called again and again succeed at some time.
FairTelegramMonitor ==
    /\ SpecTelegramMonitor
    /\ SF_vars(TMGetEntity(TRUE)) /\ SF_vars(TMIterMessages(TRUE))

\* The three components that store vacancies, side by side over channels
\* that hold one vacancy, with the keywords of the VacancyParser and the
\* indicators of the TelegramParser: the ChannelMonitor, the TelegramMonitor
\* and the TelegramParser, each for the channel "7" among its channels.
StoredBatch == {Message(1, "both")}
InitExistence == InitWith({<<RefA>>}, {StoredBatch})
NextExistence ==
    \/ Monitor
    \/ TMStart \/ TMLoopStep
    \/ StartPeriodicParsing \/ TPLoopStep
SpecExistence == InitExistence /\ [][NextExistence]_vars

\* The cursor store on its own: update_last_message_id called with any
\* channel id and any message id.
CursorChannels == {RefA, RefB, RefAPrefixed}
CursorIds == 0..(MaxPosts + 1)

CallUpdateLastMessageId(channel_id, message_id) ==
    /\ states' = UpdateLastMessageId(channel_id, message_id)
    /\ UNCHANGED <<call, app, parsing, suspended, telegramMonitor, valid_channels, sourceVars, vacancies, vacancyIndex, phase,
                   workerVars, route>>

NextCursor == \E c \in CursorChannels, m \in CursorIds : CallUpdateLastMessageId(c, m)
SpecCursor == Init /\ [][NextCursor]_vars

\* The parser on its own: each of its functions applied, one call at a time,
\* to any of the messages and any of the answers.
ParserMessages == {Message(1, t) : t \in AllTexts}

NextParser ==
    \/ \E m \in ParserMessages : CallIsValidMessage(m)
    \/ \E r \in ParserReplies : CallParseWithClaude(r)
    \/ \E m \in ParserMessages, r \in ParserReplies : CallParseVacancy(m, r)
    \/ \E m \in ParserMessages, r \in ParserReplies : CallProcessMessage(m, r, RefA)
    \/ \E c \in ChannelRefs, up \in BOOLEAN : CallGetChannelMessages(c, up)
    \/ TakeResult

SpecParser == Init /\ [][NextParser]_vars

\* ------------------------------------------------------------- properties

\* The step with which the for loop over the batch, or the cursor write after
\* it, ends a cycle of worker w normally.
Running == {"fetch", "find", "extract", "insert", "advance"}
CompletesCycle(w) == pc[w] \in Running \ {"fetch"} /\ pc'[w] = "done"

\* C1: no two stored vacancy records have the same pair
\* (telegram_message_id, channel_id), under any interleaving of the monitor
\* and the parse-latest route.
C1_UniqueDedupKey ==
    \A rec \in BagToSet(vacancies) : Count(rec) <= 1

\* C2: once a record is stored for a message, a later process_message call
\* for the same message id and channel id returns False ("already exists")
\* without reaching the extraction or the insert, and the calls made one
\* after the other leave exactly one record for the message.
C2_SaveIdempotent ==
    [][ /\ \A w \in Workers :
              (pc[w] = "find" /\ Count(Key(Current(w).id, valid_channels[w])) > 0)
              => /\ vacancies' = vacancies
                 /\ processed'[w] = processed[w]
                 /\ pc'[w] \in {"find", "done", "failed"}
                 /\ (pc'[w] = "done" => outcomes'[w] = <<"exists">>)
        /\ \A rec \in BagToSet(vacancies') : CopiesIn(rec, vacancies') = 1
      ]_vars

\* C2 witness: the first call saved the message in an earlier cycle and the
\* call of this cycle reported that it already exists.
C2_Witness ==
    \E w \in Workers :
        /\ pc[w] = "done"
        /\ outcomes[w] = <<"exists">>
        /\ Count(Key(messages[w][1].id, valid_channels[w])) = 1

\* C3: over any sequence of update_last_message_id calls the stored
\* last_message_id of a channel never decreases.
C3_UpdateNeverDecreases ==
    [][\A c \in DOMAIN states : states'[c] >= states[c]]_vars

\* C4: the cursor of a channel after a monitoring cycle is greater than or
\* equal to its value before the cycle.
C4_CursorForwardOverCycles ==
    [][\A w \in Workers :
          pc[w] = "advance"
          => GetLastMessageId(valid_channels[w])' >= GetLastMessageId(valid_channels[w])
      ]_vars

\* C5: every message of the batch a cycle fetches and hands to
\* process_message has an id greater than the cursor stored when the cycle
\* fetches.
C5_FetchedNewerThanCursor ==
    [][\A w \in Workers :
          (pc[w] = "fetch" /\ pc'[w] = "find")
          => \A i \in 1..Len(messages'[w]) :
                 messages'[w][i].id > GetLastMessageId(valid_channels[w])
      ]_vars

\* C6: a cycle that ends with at least one message persisted or rejected by
\* the validator has advanced the cursor to the newest id of its batch.
C6_AdvanceWhenHandled ==
    [][\A w \in Workers :
          (/\ CompletesCycle(w)
           /\ \E i \in 1..Len(outcomes'[w]) : outcomes'[w][i] \in {"saved", "rejected"})
          => GetLastMessageId(valid_channels[w])' = NewestId(messages[w])
      ]_vars

\* C7: whenever monitor_channel writes the cursor, the value written is the
\* largest message id of the fetched batch.
C7_AdvanceToNewest ==
    [][\A w \in Workers :
          (pc[w] = "advance" /\ pc'[w] = "done")
          => /\ valid_channels[w] \in DOMAIN states'
             /\ states'[valid_channels[w]] = NewestId(messages[w])
      ]_vars

\* C7 witness: a cycle saved a message and wrote the cursor.
C7_Witness ==
    \E w \in Workers :
        /\ pc[w] = "done"
        /\ processed[w] > 0
        /\ GetLastMessageId(valid_channels[w]) = NewestId(messages[w])

\* C8: a cycle in which the extraction of a message failed still ends with
\* the cursor at the newest id of its batch.
C8_ForwardProgress ==
    [][\A w \in Workers :
          (/\ CompletesCycle(w)
           /\ \E i \in 1..Len(outcomes'[w]) : outcomes'[w][i] = "extraction_error")
          => GetLastMessageId(valid_channels[w])' = NewestId(messages[w])
      ]_vars

\* C9: an error raised while one message is processed never aborts the cycle
\* of its channel.
C9_MessageErrorContained ==
    \A w \in Workers : ~(pc[w] = "failed" /\ error[w] = "process")

\* C10: in a cycle in which the fetch of one channel has raised, the worker
\* of every other channel reaches the end of its own cycle: it completes, or
\* stops on an error of its own fetch, messages or cursor write.
C10_OtherChannelCompletes ==
    \A a \in {1, 2} : \A b \in {1, 2} \ {a} :
        (error[a] = "fetch")
        ~> (pc[b] = "done" \/ (pc[b] = "failed" /\ error[b] \in {"fetch", "process", "advance"}))

\* C10 witness: the fetch of the first channel raised, and the worker of the
\* second channel completed its cycle and stored a vacancy.
C10_Witness ==
    /\ Len(valid_channels) = 2
    /\ pc[1] = "failed" /\ error[1] = "fetch"
    /\ pc[2] = "done" /\ outcomes[2] = <<"saved">>
    /\ Count(Key(messages[2][1].id, valid_channels[2])) = 1

\* The cursor and the stored vacancies of one channel.
ChannelVacancies(channel_id) ==
    [rec \in {r \in BagToSet(vacancies) : r.channel_id = channel_id} |-> Count(rec)]

\* C11: a fetch failure in monitor_channel ends the cycle of the channel: the
\* worker goes to its except branch and stays there until the cycle is over,
\* without fetching again, and the cursor and the stored vacancies of the
\* channel are the same from the failed fetch to the end of the cycle.
C11_FetchFailureAborts ==
    [][\A w \in Workers :
          /\ error'[w] = "fetch" => pc'[w] = "failed"
          /\ (\/ pc[w] = "fetch" /\ error'[w] = "fetch"
              \/ pc[w] = "failed" /\ error[w] = "fetch")
             => /\ pc'[w] \in {"failed", "idle"}
                /\ GetLastMessageId(valid_channels[w])' = GetLastMessageId(valid_channels[w])
                /\ ChannelVacancies(valid_channels[w])' = ChannelVacancies(valid_channels[w])
      ]_vars

\* C11 witness: a channel with a stored vacancy and a cursor, whose fetch
\* failed in this cycle.
C11_Witness ==
    \E w \in Workers :
        /\ pc[w] = "failed" /\ error[w] = "fetch"
        /\ GetLastMessageId(valid_channels[w]) > 0
        /\ DOMAIN ChannelVacancies(valid_channels[w]) # {}

\* C12: no two monitor_channel workers are running for the same channel id
\* at the same time, whatever the configured list.
C12_OneWorkerPerChannel ==
    \A a \in Workers : \A b \in Workers \ {a} :
        valid_channels[a] = valid_channels[b]
        => ~(pc[a] \in Running /\ pc[b] \in Running)

\* C13: for a request the extraction service did not answer, or answered
\* with an error status, parse_with_claude returns something else than it
\* returns for the clean answer null ("not a vacancy").
C13_FailureDistinguishable ==
    (call.op = "parse_with_claude" /\ call.response.status # "ok")
    => call.result # ParseWithClaude(Answer(None))

\* C14: process_message gives up on a message because its extraction failed
\* only on its third attempt.
C14_ExtractionRetried ==
    [][\A w \in Workers :
          (/\ pc[w] = "extract"
           /\ Len(outcomes'[w]) = Len(outcomes[w]) + 1
           /\ outcomes'[w][Len(outcomes'[w])] = "extraction_error")
          => attempt[w] = MaxAttempts
      ]_vars

\* C15: when insert_one is rejected for a duplicate key, process_message
\* ends as for a message that already exists: it is not called again by the
\* retry, no error is raised, and the cycle goes on.
C15_DuplicateKeyIsExists ==
    [][\A w \in Workers :
          (/\ pc[w] = "insert"
           /\ DuplicateKey(Key(Current(w).id, valid_channels[w]))
           /\ <<pc[w], attempt[w], outcomes[w]>>' # <<pc[w], attempt[w], outcomes[w]>>)
          => /\ attempt'[w] <= attempt[w]
             /\ error'[w] = "none"
             /\ outcomes'[w] = Append(outcomes[w], "exists")
      ]_vars

\* C16: is_valid_message and parse_vacancy never raise; for a text that is
\* empty or None the validator rejects for missing text and parse_vacancy
\* returns None.
C16_ValidatorNeverRaises ==
    /\ call.op \in {"is_valid_message", "parse_vacancy"} => ~call.raised
    /\ (call.op = "is_valid_message" /\ call.message.text \in {"absent", "empty"})
       => call.result = [valid |-> FALSE, reason |-> "Message contains no text"]
    /\ (call.op = "parse_vacancy" /\ call.message.text \in {"absent", "empty"})
       => call.result = None

\* C17: is_valid_message accepts a text exactly when it has at least 30
\* characters, one of the main keywords and two different section keywords;
\* a text of fewer than 30 characters is rejected as too short whatever it
\* contains.
C17_AcceptsIff ==
    (call.op = "is_valid_message" /\ TextBody[call.message.text] # None)
    => LET chars == TextBody[call.message.text].chars
           lower == StrLower(chars)
       IN  /\ call.result.valid
              <=> /\ Len(chars) >= 30
                  /\ \E k \in MainKeywords : Contains(lower, k)
                  /\ \E j, k \in SectionKeywords :
                        j # k /\ Contains(lower, j) /\ Contains(lower, k)
           /\ (0 < Len(chars) /\ Len(chars) < 30)
              => call.result = [valid |-> FALSE, reason |-> "Message is too short"]

\* C17 witness: the validator accepted a text of exactly 30 characters.
C17_Witness ==
    /\ call.op = "is_valid_message"
    /\ call.result.valid
    /\ Len(TextBody[call.message.text].chars) = 30

\* The answer is a dict without one of the fields title, work_format,
\* location, description.
LacksRequiredField(response) ==
    /\ response.status = "ok" /\ response.parses
    /\ IsDict(response.value)
    /\ \E k \in {"title", "work_format", "location", "description"} :
           k \notin DOMAIN response.value.dict

\* C18: for a valid message whose extraction answer lacks one of title,
\* work_format, location, description, parse_vacancy returns None and
\* process_message has no document to store.
C18_MissingFieldDiscarded ==
    (/\ call.op \in {"parse_vacancy", "process_message"}
     /\ IsValidMessage(call.message).valid
     /\ LacksRequiredField(call.response))
    => (~call.raised /\ call.result = None)

\* C18 witness: process_message was given an answer without a title for a
\* valid message.
C18_Witness ==
    /\ call.op = "process_message"
    /\ IsValidMessage(call.message).valid
    /\ call.response = Answer(Without(RemoteVacancy, "title"))
    /\ call.result = None

\* The answer is a remote vacancy with title, location, description and
\* contacts.
OtherwiseValid(response) ==
    /\ response.status = "ok" /\ response.parses
    /\ IsDict(response.value)
    /\ Get(response.value, "work_format", None) = Remote
    /\ {"title", "location", "description", "contacts"} \subseteq DOMAIN response.value.dict

\* Whether the answer gives a value other than null under
\* salary.range.<end>.
GivesRangeEnd(value, end) ==
    /\ "salary" \in DOMAIN value.dict /\ value.dict["salary"] # None
    /\ "range" \in DOMAIN value.dict["salary"].dict
    /\ value.dict["salary"].dict["range"] # None
    /\ end \in DOMAIN value.dict["salary"].dict["range"].dict
    /\ value.dict["salary"].dict["range"].dict[end] # None

\* C19: for a valid message and an otherwise valid remote answer,
\* parse_vacancy returns a candidate, also when salary or its range is absent
\* or null; in it a range end that was absent or null is 0 and a company
\* that was absent or null is the "unspecified" text.
C19_Normalization ==
    (/\ call.op = "parse_vacancy"
     /\ IsValidMessage(call.message).valid
     /\ OtherwiseValid(call.response))
    => /\ call.result # None
       /\ ~GivesRangeEnd(call.response.value, "min")
          => call.result.salary.range.min = Num(0)
       /\ ~GivesRangeEnd(call.response.value, "max")
          => call.result.salary.range.max = Num(0)
       /\ Get(call.response.value, "company", None) = None
          => call.result.company = Unspecified

\* C20: in every document process_message hands to insert_one,
\* salary.range.min and salary.range.max are integers that are not negative.
C20_StoredRangeNonNegative ==
    (call.op = "process_message" /\ call.result # None)
    => /\ IsNum(call.result.salary.range.min)
       /\ call.result.salary.range.min.int >= 0
       /\ IsNum(call.result.salary.range.max)
       /\ call.result.salary.range.max.int >= 0

\* C21: the step in which parse_vacancy returns never inserts, never raises
\* and never makes the retry call process_message again; when the answer was
\* a vacancy that is not remote, process_message returns False and the loop
\* goes on to the next message or to the end of the cycle.
C21_NotRemoteIsClean ==
    [][\A w \in Workers :
          pc[w] = "extract"
          => /\ vacancies' = vacancies
             /\ error'[w] = "none"
             /\ attempt'[w] <= attempt[w]
             /\ pc'[w] # "failed"
             /\ outcomes'[w] = Append(outcomes[w], "not_remote")
                => /\ pc'[w] \in {"find", "done", "advance"}
                   /\ processed'[w] = processed[w]
      ]_vars

\* C21 witness: a cycle whose only message was answered with a vacancy that
\* is not remote has completed, and nothing is stored.
C21_Witness ==
    \E w \in Workers :
        /\ pc[w] = "done"
        /\ outcomes[w] = <<"not_remote">>
        /\ error[w] = "none"
        /\ vacancies = EmptyBag

\* C23: a cycle starts with one monitor_channel run for every entry of the
\* validated list, all of them idle before; runs exist only while gather is
\* awaited; and gather returns, and the sleep before the next cycle begins,
\* only when every run has ended.
C23_FanOutFanIn ==
    [][/\ (phase = "sleep" /\ phase' = "gather")
          => \A w \in Workers : pc[w] = "idle" /\ pc'[w] = "fetch"
       /\ (phase = "gather" /\ phase' = "sleep")
          => \A w \in Workers : pc[w] \in {"done", "failed"} /\ pc'[w] = "idle"
       /\ \A w \in Workers : pc'[w] \in Running => phase' = "gather"
       /\ \A w \in Workers : (pc[w] = "idle" /\ pc'[w] # "idle") => phase = "sleep"
      ]_vars

\* C23 witness: the runs of two channels are both under way in one cycle.
C23_Witness ==
    /\ Len(valid_channels) = 2
    /\ phase = "gather"
    /\ pc[1] = "extract"
    /\ pc[2] = "insert"

\* C24: after an error in the cycle of a channel, start_monitoring goes on:
\* the next cycle starts, with a run for every channel.
C24_SchedulerSurvives ==
    \A w \in {1, 2} :
        (error[w] \in {"fetch", "process", "advance"})
        ~> (phase = "gather" /\ \A v \in Workers : pc[v] = "fetch")

\* C24 witness: every run of the cycle has ended, one of them on a message
\* whose processing failed on all three attempts.
C24_Witness ==
    /\ Len(valid_channels) = 2
    /\ \A w \in Workers : pc[w] \in {"done", "failed"}
    /\ \E w \in Workers : pc[w] = "failed" /\ error[w] = "process" /\ attempt[w] = MaxAttempts

\* C28: the cursor of a channel changes only in the step after the loop over
\* the batch, when process_message has returned for every message of the
\* batch; in every other step of a cycle, also one that ends it with an
\* error, the cursor stays as it was.
C28_CursorAfterBatch ==
    [][\A w \in Workers :
          GetLastMessageId(valid_channels[w])' # GetLastMessageId(valid_channels[w])
          => /\ pc[w] = "advance"
             /\ Len(outcomes[w]) = Len(messages[w])
      ]_vars

\* C28 witness: a cycle was interrupted by an error in the processing of its
\* message, and the cursor has the value an earlier cycle wrote.
C28_Witness ==
    \E w \in Workers :
        /\ pc[w] = "failed" /\ error[w] = "process"
        /\ GetLastMessageId(valid_channels[w]) > 0
        /\ GetLastMessageId(valid_channels[w]) < messages[w][1].id

\* C29: the batch of a cycle, which the for loop of monitor_channel goes
\* through from its first to its last message, is in ascending order of
\* message id.
C29_ProcessedAscending ==
    \A w \in Workers :
        \A i, j \in 1..Len(messages[w]) :
            i < j => messages[w][i].id < messages[w][j].id

\* C29 witness: a cycle has processed its batch for a channel that holds two
\* messages.
C29_Witness ==
    \E w \in Workers :
        /\ pc[w] = "done"
        /\ Len(outcomes[w]) = Len(messages[w])
        /\ Len(messages[w]) > 0
        /\ Cardinality(chanMsgs[ChannelPeer(valid_channels[w]).value]) = 2

\* C22: for a channel with cursor 0 that holds a remote vacancy (1), a
\* too-short message (2) and a vacancy that is not remote (3), a cycle in
\* which no call failed ends with exactly one stored vacancy, that of
\* message 1, and with the cursor at 3.
C22_EndToEnd ==
    [][\A w \in Workers :
          (/\ CompletesCycle(w)
           /\ chanMsgs[ChannelPeer(valid_channels[w]).value] = ScenarioBatch
           /\ GetLastMessageId(valid_channels[w]) = 0
           /\ \E i \in 1..Len(outcomes'[w]) : outcomes'[w][i] = "not_remote"
           /\ \A i \in 1..Len(outcomes'[w]) :
                 outcomes'[w][i] \in {"saved", "rejected", "not_remote"})
          => /\ ChannelVacancies(valid_channels[w])' = (Key(1, valid_channels[w]) :> 1)
             /\ GetLastMessageId(valid_channels[w])' = 3
      ]_vars

\* C27: once a cycle has ended with a message rejected by the validator, that
\* message is not handed to process_message again, and once a cycle has
\* ended with a message skipped as no vacancy, no extraction request is made
\* for that message again.
C27_NeverReevaluated ==
    \A w \in {1, 2} : \A i \in 1..MaxInitialId :
        /\ []((pc[w] = "done" /\ outcomes[w] = <<"rejected">> /\ messages[w][1].id = i)
              => [](~(pc[w] = "find" /\ Current(w).id = i)))
        /\ []((pc[w] = "done" /\ outcomes[w] = <<"no_vacancy">> /\ messages[w][1].id = i)
              => [](~(pc[w] = "extract" /\ Current(w).id = i)))

\* C30: for a raw numeric id, an id with the -100 prefix and a handle,
\* get_channel_messages turns the reference into a peer without raising in
\* the conversion, and the raw and the prefixed form of one channel give the
\* same peer.
C30_AllFormsAccepted ==
    call.op = "get_channel_messages"
    => /\ call.result # None
       /\ call.channel_id \in {RefA, RefAPrefixed} => call.result = Num(PeerA)

\* C25: once lifespan has cancelled the monitor task no monitoring cycle
\* runs or starts any more, and when the shutdown is complete the connection
\* to the channel source opened at startup is disconnected.
C25_ShutdownReleases ==
    /\ app.stage # "running"
       => phase = "cancelled" /\ \A w \in Workers : pc[w] = "cancelled"
    /\ app.stage = "stopped" => ~app.telegram

\* C26: start_periodic_parsing calls fetch_and_save_messages for a channel
\* only with the stop flag unset (_processing True), at the top of a round
\* and between two channels, and once stop_parsing has cleared the flag the
\* loop ends.
C26_StopFlagChecked ==
    /\ [][(parsing'.channel # parsing.channel /\ parsing'.channel # 0)
          => parsing'.processing]_vars
    /\ (parsing.pc # "idle" /\ ~parsing.processing) ~> (parsing.pc = "ended")

\* The loop was stopped during the sleep after the first channel, and left
\* the for loop without a fetch for the second one.
C26_Witness ==
    /\ parsing.pc = "wait"
    /\ ~parsing.processing
    /\ parsing.total_processed = 1

\* C32: every cycle of monitor_channel ends, completed or aborted, when each
\* external call returns or raises, and process_message is never in an
\* attempt beyond the third.
C32_CycleTerminates ==
    /\ [](\A w \in Workers : attempt[w] <= MaxAttempts)
    /\ \A w \in {1, 2} : (pc[w] \in Running) ~> (pc[w] \in {"done", "failed"})

\* The third attempt of process_message has failed and the cycle of the
\* channel has ended with that error.
C32_Witness ==
    \E w \in Workers :
        pc[w] = "failed" /\ error[w] = "process" /\ attempt[w] = MaxAttempts

\* C33: a step that changes the cursor of a channel is the cursor write of a
\* monitor_channel for that channel, and a step that changes the stored
\* vacancies is the insert by a monitor_channel of one record with its own
\* channel id, whatever the other monitor_channel does.
C33_OwnChannelOnly ==
    [][/\ \A c \in DOMAIN states' :
             (c \notin DOMAIN states \/ states'[c] # states[c])
             => \E w \in Workers :
                   pc[w] = "advance" /\ pc'[w] = "done" /\ valid_channels[w] = c
       /\ DOMAIN states \subseteq DOMAIN states'
       /\ vacancies' # vacancies
          => \E w \in Workers :
                /\ pc[w] = "insert" /\ pc'[w] # "insert"
                /\ vacancies' = vacancies (+) SetToBag({Key(Current(w).id, valid_channels[w])})
      ]_vars

\* Both channels have a vacancy stored and a cursor written.
C33_Witness ==
    /\ {RefA, RefB} \subseteq DOMAIN states
    /\ \E i, j \in 1..MaxPosts : Count(Key(i, RefA)) > 0 /\ Count(Key(j, RefB)) > 0

\* C36: in a cycle of monitor_channel no more than one request is sent to the
\* extraction service for a message, retries of process_message included.
C36_ExtractionOncePerMessage ==
    \A w \in Workers : extractions[w] <= 1

\* C37: a message of a channel is stored at most once, under whichever form
\* of the channel reference the monitor and the API route handled it.
C37_OneRecordPerMessage ==
    \A i \in 1..MaxPosts : Count(Key(i, RefA)) + Count(Key(i, RefAPrefixed)) <= 1

\* C34: monitor_channels calls get_new_messages for a further channel of a
\* cycle only while is_running is set and the client is connected.
C34_StopBetweenChannels ==
    [][(/\ telegramMonitor'.pc = "entity"
        /\ telegramMonitor.channel >= 1
        /\ telegramMonitor'.channel > telegramMonitor.channel)
       => /\ telegramMonitor'.is_running
          /\ telegramMonitor'.client = "connected"]_vars

\* C35: a message that was fetched and whose processing raised is fetched
\* again by get_new_messages in a later cycle, unless the monitor is stopped
\* or loses its connection before.
C35_UnprocessedRefetched ==
    \A c \in {RefA, RefB} : \A i \in 1..2 :
        (<<c, i>> \in telegramMonitor.unprocessed)
        ~> \/ <<c, i>> \notin telegramMonitor.unprocessed
           \/ ~telegramMonitor.is_running
           \/ telegramMonitor.client # "connected"

\* C38: whenever the monitoring loop is running and fetching, the Telegram
\* client is connected, after any sequence of start() and stop().
C38_RunningMeansConnected ==
    (telegramMonitor.is_running /\ telegramMonitor.pc \in {"entity", "iter"})
    => telegramMonitor.client = "connected"

\* C39: two loops of start_periodic_parsing are never inside
\* fetch_and_save_messages at the same time: the loop of a call made before
\* stop_parsing does not fetch again after a new call.
C39_OneLoopFetches ==
    ~(/\ parsing.pc \in {"connect", "entity", "iter", "exists", "save"}
      /\ suspended.pc \in {"connect", "entity", "iter", "exists", "save"})

\* C31: for a message whose record is stored when the existence check
\* returns, process_message, process_messages and fetch_and_save_messages
\* go on without a request to the extraction service and without an insert;
\* the extraction is requested only from the existence check and the insert
\* only after the extraction.
C31_ExistenceCheckFirst ==
    [][/\ \A w \in Workers :
             /\ (pc[w] = "find" /\ Count(Key(Current(w).id, valid_channels[w])) > 0)
                => /\ pc'[w] \notin {"extract", "insert"}
                   /\ extractions'[w] <= extractions[w]
             /\ pc'[w] = "extract" => pc[w] \in {"find", "extract"}
             /\ pc'[w] = "insert" => pc[w] \in {"extract", "insert"}
       /\ LET m == telegramMonitor
          IN  /\ (/\ m.pc = "find"
                  /\ Count(Key(m.messages[m.idx].id, TMChannels[m.channel])) > 0)
                 => telegramMonitor'.pc \notin {"extract", "insert"}
              /\ telegramMonitor'.pc = "extract" => m.pc \in {"find", "extract"}
              /\ telegramMonitor'.pc = "insert" => m.pc \in {"extract", "insert"}
       /\ LET p == parsing
          IN  /\ (/\ p.pc = "exists"
                  /\ Count(Key(p.messages[p.idx].id, TPChannels[p.channel])) > 0)
                 => parsing'.pc # "save"
              /\ parsing'.pc = "save" => p.pc \in {"exists", "save"}
      ]_vars

\* Each of the three components is at, or has just left, its existence
\* check for a message that is stored.
C31_Witness ==
    /\ \E w \in Workers : pc[w] = "done" /\ outcomes[w] = <<"exists">>
    /\ telegramMonitor.pc = "find"
    /\ Count(Key(telegramMonitor.messages[telegramMonitor.idx].id,
                 TMChannels[telegramMonitor.channel])) > 0
    /\ parsing.pc = "exists"
    /\ Count(Key(parsing.messages[parsing.idx].id, TPChannels[parsing.channel])) > 0

====
